---- MODULE Spec2Model ----
(***************************************************************************)
(* Model of src/cold_case_cross_checker.py: the ColdCaseCrossChecker class *)
(* (text-to-record extraction, validation, de-duplication and the Boston   *)
(* 2014 cross-source matcher).                                             *)
(*                                                                         *)
(* A Python str is a sequence of one-character strings, so that slicing,   *)
(* substring search, lower(), split() and f-string concatenation are       *)
(* computed and not assumed.  The Python None of a str-valued field is the *)
(* one-element sequence None; the None of an int-valued field is NoneInt.  *)
(***************************************************************************)
EXTENDS Integers, Sequences, FiniteSets, TLC

(***************************************************************************)
(* Characters and the str methods the code uses                            *)
(***************************************************************************)
None == <<"None">>

NoneInt == -1

DigitChars == <<"0","1","2","3","4","5","6","7","8","9">>

UpperChars == (* "ABCDEFGHIJKLMNOPQRSTUVWXYZ" *)
            <<"A","B","C","D","E","F","G","H","I","J","K","L","M","N","O","P","Q","R","S","T","U",
            "V","W","X","Y","Z">>

LowerChars == (* "abcdefghijklmnopqrstuvwxyz" *)
            <<"a","b","c","d","e","f","g","h","i","j","k","l","m","n","o","p","q","r","s","t","u",
            "v","w","x","y","z">>

\* \s of the re module, for the characters a page text holds
SpaceSet == {" ", "\n", "\t"}

\* \d of the re module
DigitSet == {DigitChars[i] : i \in 1..10}

UpperSet == {UpperChars[i] : i \in 1..26}

\* [A-Za-z]
AlphaSet == UpperSet \cup {LowerChars[i] : i \in 1..26}

\* \w of the re module
IsWord(c) == c \in AlphaSet \/ c \in DigitSet \/ c = "_"

DigitVal(c) == (CHOOSE i \in 1..10 : DigitChars[i] = c) - 1

LowerChar(c) == IF c \in UpperSet THEN LowerChars[CHOOSE i \in 1..26 : UpperChars[i] = c] ELSE c

\* str.lower()
Lower(s) == [i \in 1..Len(s) |-> LowerChar(s[i])]

\* s[i:j] with 0-based, end-exclusive Python indices, 0 <= i, j
Slice(s, i, j) == SubSeq(s, i + 1, IF j > Len(s) THEN Len(s) ELSE j)

\* s.startswith(p, i) with a 0-based offset
StartsAt(s, p, i) == i + Len(p) <= Len(s) /\ SubSeq(s, i + 1, i + Len(p)) = p

\* p in s
Contains(p, s) == \E i \in 0..(Len(s) - Len(p)) : StartsAt(s, p, i)

\* int(s) for a string of digits
RECURSIVE ParseInt(_)
ParseInt(s) == IF s = <<>> THEN 0 ELSE 10 * ParseInt(SubSeq(s, 1, Len(s) - 1)) + DigitVal(s[Len(s)])

\* str(n) for n >= 0
RECURSIVE IntStr(_)
IntStr(n) == IF n < 10 THEN <<DigitChars[n + 1]>> ELSE IntStr(n \div 10) \o <<DigitChars[(n % 10) + 1]>>

\* the number of leading characters of s[i:] that belong to the class
RECURSIVE RunLen(_, _, _)
RunLen(s, i, class) ==
    IF i < Len(s) /\ s[i + 1] \in class THEN 1 + RunLen(s, i + 1, class) ELSE 0

\* the number of leading characters of s[i:] that do not belong to the class
RECURSIVE RunLenNot(_, _, _)
RunLenNot(s, i, class) ==
    IF i < Len(s) /\ s[i + 1] \notin class THEN 1 + RunLenNot(s, i + 1, class) ELSE 0

\* str.split(): the maximal runs of non-whitespace characters
RECURSIVE SplitFrom(_, _)
SplitFrom(s, i) ==
    IF i >= Len(s) THEN <<>>
    ELSE IF s[i + 1] \in SpaceSet THEN SplitFrom(s, i + 1)
    ELSE LET n == RunLenNot(s, i, SpaceSet)
         IN  <<Slice(s, i, i + n)>> \o SplitFrom(s, i + n)

Split(s) == SplitFrom(s, 0)

\* the number of trailing characters of s[:j] that belong to the class
RECURSIVE TrailLen(_, _, _)
TrailLen(s, j, class) ==
    IF j > 0 /\ s[j] \in class THEN 1 + TrailLen(s, j - 1, class) ELSE 0

\* str.strip()
Strip(s) ==
    LET a == RunLen(s, 0, SpaceSet)
    IN  IF a = Len(s) THEN <<>> ELSE SubSeq(s, a + 1, Len(s) - TrailLen(s, Len(s), SpaceSet))

\* re.sub(r'\s+', ' ', s): every run of whitespace becomes one blank
CollapseSpaces(s) ==
    LET First(i) == ~(s[i] \in SpaceSet /\ i > 1 /\ s[i - 1] \in SpaceSet)
        kept == SelectSeq([i \in 1..Len(s) |-> i], First)
    IN  [k \in 1..Len(kept) |-> IF s[kept[k]] \in SpaceSet THEN " " ELSE s[kept[k]]]

\* \b of the re module at 0-based offset i of s
WordBoundary(s, i) ==
    LET before == i > 0 /\ IsWord(s[i])
        after == i < Len(s) /\ IsWord(s[i + 1])
    IN  before # after

\* re.search finds no match
NoMatch == -1

\* the least element of a non-empty set of offsets, NoMatch for the empty set
Leftmost(hits) == IF hits = {} THEN NoMatch ELSE CHOOSE h \in hits : \A g \in hits : h <= g

\* str(x) of an optional str field inside an f-string
StrOf(x) == IF x = None THEN <<"N","o","n","e">> ELSE x

\* truthiness of an optional str field
Truthy(x) == x # None /\ x # <<>>

(***************************************************************************)
(* Python floats.  Every score is a sum of the literals 0.1, 0.2, 0.3, 0.4 *)
(* and 0.6 added in the order of the scoring rules.  <<t, e>> denotes the  *)
(* double that lies e * 2^-54 above the double nearest to t/10, so that    *)
(* 0.1 + 0.2 = 0.30000000000000004 is <<3, 1>> and differs from 0.3.       *)
(***************************************************************************)
Float(t) == <<t, 0>>

\* x + c/10 in IEEE-754 double arithmetic, for the sums the scorer forms
FloatAdd(x, c) ==
    LET k == <<x[1], x[2], c>>
    IN  CASE k \in {<<1, 0, 2>>, <<2, 0, 1>>} -> <<3, 1>>
          [] k \in {<<3, 1, 3>>, <<4, 0, 2>>} -> <<6, 2>>
          [] k = <<6, 2, 1>> -> <<7, 2>>
          [] k = <<7, 0, 1>> -> <<8, -2>>
          [] k \in {<<6, 0, 3>>, <<7, 0, 2>>, <<8, -2, 1>>} -> <<9, -2>>
          [] k \in {<<6, 2, 3>>, <<7, 2, 2>>} -> <<9, 2>>
          [] k = <<9, -2, 1>> -> <<10, -2>>
          [] k = <<9, 2, 1>> -> <<10, 4>>
          [] k \in {<<8, -2, 3>>, <<9, -2, 2>>, <<10, -2, 1>>} -> <<11, -4>>
          [] k \in {<<9, 2, 3>>, <<11, 0, 1>>} -> <<12, 4>>
          [] k \in {<<10, -2, 3>>, <<11, -4, 2>>} -> <<13, -4>>
          [] k = <<11, 0, 3>> -> <<14, 4>>
          [] OTHER -> <<x[1] + c, 0>>

\* x < y
FloatLess(x, y) == x[1] < y[1] \/ (x[1] = y[1] /\ x[2] < y[2])

\* min(x, y)
FloatMin(x, y) == IF FloatLess(y, x) THEN y ELSE x

(***************************************************************************)
(* The cross-source matcher                                                *)
(***************************************************************************)
\* the match of r'\b(19|20)\d{2}\b' at 0-based offset i of s
YearMatchAt(s, i) ==
    /\ i + 4 <= Len(s)
    /\ WordBoundary(s, i)
    /\ (StartsAt(s, <<"1","9">>, i) \/ StartsAt(s, <<"2","0">>, i))
    /\ s[i + 3] \in DigitSet /\ s[i + 4] \in DigitSet
    /\ WordBoundary(s, i + 4)

\* int(year_match.group(0)) if year_match else None, for the match at offset i
YearOf(s, i) == IF i = NoMatch THEN NoneInt ELSE ParseInt(Slice(s, i, i + 4))

_extract_year(date_str) ==
    IF ~Truthy(date_str) THEN NoneInt
    ELSE YearOf(date_str, Leftmost({i \in 0..(Len(date_str) - 4) : YearMatchAt(date_str, i)}))

Abs(n) == IF n < 0 THEN -n ELSE n

\* an int-valued field is truthy when it is neither None nor 0
TruthyInt(n) == n # NoneInt /\ n # 0

boston_areas ==
    << <<"b","o","s","t","o","n">>, <<"r","o","x","b","u","r","y">>, <<"d","o","r","c","h","e","s","t","e","r">>, <<"m","a","t","t","a","p","a","n">>, <<"s","o","u","t","h"," ","e","n","d">>,
       <<"j","a","m","a","i","c","a"," ","p","l","a","i","n">>, <<"c","h","a","r","l","e","s","t","o","w","n">>, <<"e","a","s","t"," ","b","o","s","t","o","n">>, <<"s","o","u","t","h"," ","b","o","s","t","o","n">> >>

\* a test that takes a part for a match only when it is the whole name
AnyPartIsName(parts, cold_name) == \E p \in 1..Len(parts) : parts[p] = cold_name

\* any(part in cold_name for part in parts if len(part) > 2)
AnyPartIn(parts, cold_name) ==
    \E p \in 1..Len(parts) : Len(parts[p]) > 2 /\ Contains(parts[p], cold_name)

\* the name rule on the lower-cased names: 1 exact, 2 partial, 0 none
NameRule(boston_name, cold_name) ==
    IF boston_name # <<>> /\ cold_name # <<>>
       /\ boston_name # <<"u","n","k","n","o","w","n">> /\ cold_name # <<"u","n","k","n","o","w","n">>
    THEN IF boston_name = cold_name THEN 1
         ELSE IF AnyPartIn(Split(boston_name), cold_name) THEN 2
         ELSE 0
    ELSE 0

\* the age rule: 1 exact, 2 within two years, 3 within five years, 0 none
AgeRule(boston_age, cold_age) ==
    IF TruthyInt(boston_age) /\ TruthyInt(cold_age)
    THEN IF Abs(boston_age - cold_age) = 0 THEN 1
         ELSE IF Abs(boston_age - cold_age) <= 2 THEN 2
         ELSE IF Abs(boston_age - cold_age) <= 5 THEN 3
         ELSE 0
    ELSE 0

\* the date rule: 1 same year, 2 adjacent years, 3 within three years, 0 none
YearRule(boston_year, cold_year) ==
    IF TruthyInt(boston_year) /\ TruthyInt(cold_year)
    THEN IF Abs(boston_year - cold_year) = 0 THEN 1
         ELSE IF Abs(boston_year - cold_year) <= 1 THEN 2
         ELSE IF Abs(boston_year - cold_year) <= 3 THEN 3
         ELSE 0
    ELSE 0

\* any(area in loc for area in boston_areas)
InArea(loc) == \E a \in 1..Len(boston_areas) : Contains(boston_areas[a], loc)

\* the location rule of the scorer on the lower-cased locations:
\* 1 equal, 2 a shared area, 3 two different areas, 0 none
LocationRule(boston_loc, cold_loc) ==
    IF boston_loc # <<>> /\ cold_loc # <<>> /\ InArea(boston_loc) /\ InArea(cold_loc)
    THEN IF boston_loc = cold_loc THEN 1
         ELSE IF \E a \in 1..Len(boston_areas) :
                    Contains(boston_areas[a], boston_loc) /\ Contains(boston_areas[a], cold_loc)
         THEN 2
         ELSE 3
    ELSE 0

\* score += w, where rule chose the weight among ws (in tenths); 0 adds nothing
AddRule(score, rule, ws) == IF rule = 0 THEN score ELSE FloatAdd(score, ws[rule])

\* the score after the name rule
ScoreName(score, boston_case, cold_case) ==
    AddRule(score, NameRule(Lower(boston_case.victim_name), Lower(cold_case.victim_name)), <<6, 4>>)

\* an age rule that gives the pair up when an age is missing
ScoreAgeOrNothing(score, boston_case, cold_case) ==
    IF TruthyInt(boston_case.age) /\ TruthyInt(cold_case.age)
    THEN AddRule(score, AgeRule(boston_case.age, cold_case.age), <<3, 2, 1>>)
    ELSE Float(0)

\* the score after the age rule
ScoreAge(score, boston_case, cold_case) ==
    AddRule(score, AgeRule(boston_case.age, cold_case.age), <<3, 2, 1>>)

\* the score after the date rule
ScoreYear(score, boston_case, cold_case) ==
    AddRule(score, YearRule(_extract_year(boston_case.date), _extract_year(cold_case.date)), <<3, 2, 1>>)

\* the score after the location rule
ScoreLocation(score, boston_case, cold_case) ==
    AddRule(score, LocationRule(Lower(boston_case.location), Lower(cold_case.location)), <<3, 2, 1>>)

\* a scorer that returns the sum as it is, without min(score, 1.0)
ScoreWithoutCeiling(boston_case, cold_case) ==
    ScoreLocation(ScoreYear(ScoreAge(ScoreName(Float(0),
        boston_case, cold_case), boston_case, cold_case),
        boston_case, cold_case), boston_case, cold_case)

_calculate_enhanced_match_score(boston_case, cold_case) ==
    FloatMin(ScoreLocation(ScoreYear(ScoreAge(ScoreName(Float(0),
                 boston_case, cold_case), boston_case, cold_case),
                 boston_case, cold_case), boston_case, cold_case),
             Float(10))

\* the reason of the name analysis, if any
NameReason(rule, boston_case, cold_case) ==
    IF rule = 1 THEN << (* "Exact victim name match: " *)
            <<"E","x","a","c","t"," ","v","i","c","t","i","m"," ","n","a","m","e"," ","m","a","t",
            "c","h",":"," ">> \o boston_case.victim_name >>
    ELSE IF rule = 2
    THEN << <<"P","a","r","t","i","a","l"," ","n","a","m","e"," ","m","a","t","c","h",":"," ">> \o boston_case.victim_name
               \o <<" ","/"," ">> \o cold_case.victim_name >>
    ELSE <<>>

\* the reason of the age analysis, if any
AgeReason(boston_age, cold_age) ==
    IF AgeRule(boston_age, cold_age) = 1
    THEN << <<"E","x","a","c","t"," ","a","g","e"," ","m","a","t","c","h",":"," ">> \o IntStr(boston_age) \o <<" ","y","e","a","r","s"," ","o","l","d">> >>
    ELSE IF AgeRule(boston_age, cold_age) = 2
    THEN << <<"V","e","r","y"," ","c","l","o","s","e"," ","a","g","e",":"," ">> \o IntStr(boston_age) \o <<" ","v","s"," ">>
               \o IntStr(cold_age) \o <<" ","y","e","a","r","s"," ","o","l","d">> >>
    ELSE IF AgeRule(boston_age, cold_age) = 3
    THEN << <<"S","i","m","i","l","a","r"," ","a","g","e"," ","r","a","n","g","e",":"," ">> \o IntStr(boston_age) \o <<" ","v","s"," ">>
               \o IntStr(cold_age) \o <<" ","y","e","a","r","s"," ","o","l","d">> >>
    ELSE <<>>

\* the reason of the date analysis, if any
YearReason(boston_year, cold_year) ==
    IF YearRule(boston_year, cold_year) = 1
    THEN << <<"S","a","m","e"," ","y","e","a","r",":"," ">> \o IntStr(boston_year) >>
    ELSE IF YearRule(boston_year, cold_year) = 2
    THEN << <<"A","d","j","a","c","e","n","t"," ","y","e","a","r","s",":"," ">> \o IntStr(boston_year) \o <<" ","v","s"," ">> \o IntStr(cold_year) >>
    ELSE IF YearRule(boston_year, cold_year) = 3
    THEN << <<"C","l","o","s","e"," ","t","i","m","e","f","r","a","m","e",":"," ">> \o IntStr(boston_year) \o <<" ","v","s"," ">> \o IntStr(cold_year) >>
    ELSE <<>>

\* any(word in cold_loc for word in words)
AnyWordIn(words, cold_loc) == \E w \in 1..Len(words) : Contains(words[w], cold_loc)

\* a location analysis that asks for two Boston areas, as the scorer does
LocationReasonRuleInArea(boston_loc, cold_loc) ==
    IF boston_loc # <<>> /\ cold_loc # <<>> /\ InArea(boston_loc) /\ InArea(cold_loc)
    THEN IF boston_loc = cold_loc THEN 1
         ELSE IF AnyWordIn(Split(boston_loc), cold_loc) THEN 2
         ELSE 0
    ELSE 0

\* the location rule of the reasons on the lower-cased locations:
\* 1 equal, 2 a word of the Boston location occurs in the other one, 0 none
LocationReasonRule(boston_loc, cold_loc) ==
    IF boston_loc # <<>> /\ cold_loc # <<>>
    THEN IF boston_loc = cold_loc THEN 1
         ELSE IF AnyWordIn(Split(boston_loc), cold_loc) THEN 2
         ELSE 0
    ELSE 0

\* the reason of the location analysis, if any
LocationReason(rule, boston_loc, cold_loc) ==
    IF rule = 1 THEN << <<"E","x","a","c","t"," ","l","o","c","a","t","i","o","n"," ","m","a","t","c","h",":"," ">> \o boston_loc >>
    ELSE IF rule = 2 THEN << <<"L","o","c","a","t","i","o","n"," ","o","v","e","r","l","a","p",":"," ">> \o boston_loc \o <<" ","/"," ">> \o cold_loc >>
    ELSE <<>>

\* the Boston area confirmation, if any
AreaReason(boston_loc) ==
    IF \E a \in 1..3 : Contains(boston_areas[a], boston_loc)
    THEN << (* "Confirmed Boston area case" *)
            <<"C","o","n","f","i","r","m","e","d"," ","B","o","s","t","o","n"," ","a","r","e","a",
            " ","c","a","s","e">> >>
    ELSE <<>>

_get_enhanced_match_reasons(boston_case, cold_case) ==
    NameReason(NameRule(Lower(boston_case.victim_name), Lower(cold_case.victim_name)),
               boston_case, cold_case)
        \o AgeReason(boston_case.age, cold_case.age)
        \o YearReason(_extract_year(boston_case.date), _extract_year(cold_case.date))
        \o LocationReason(LocationReasonRule(Lower(boston_case.location), Lower(cold_case.location)),
                          boston_case.location, cold_case.location)
        \o AreaReason(Lower(boston_case.location))

\* the match threshold of the Boston 2014 variant, 0.2
MatchThreshold == Float(2)

\* a loop body that compares with >= 0.2
RetainedFromThreshold(boston_case, cold_case, match_score) ==
    IF ~FloatLess(match_score, MatchThreshold)
    THEN << [boston_case |-> boston_case,
             cold_case |-> cold_case,
             match_score |-> match_score,
             match_reasons |-> _get_enhanced_match_reasons(boston_case, cold_case)] >>
    ELSE <<>>

\* self.matches.append({...}) when match_score > 0.2
Retained(boston_case, cold_case, match_score) ==
    IF FloatLess(MatchThreshold, match_score)
    THEN << [boston_case |-> boston_case,
             cold_case |-> cold_case,
             match_score |-> match_score,
             match_reasons |-> _get_enhanced_match_reasons(boston_case, cold_case)] >>
    ELSE <<>>

\* the inner loop of find_enhanced_boston_matches, from cold_case_db[j]
RECURSIVE ColdLoop(_, _, _)
ColdLoop(boston_case, db, j) ==
    IF j > Len(db) THEN <<>>
    ELSE Retained(boston_case, db[j], _calculate_enhanced_match_score(boston_case, db[j]))
            \o ColdLoop(boston_case, db, j + 1)

\* the outer loop of find_enhanced_boston_matches, from boston_cases[i]
RECURSIVE BostonLoop(_, _, _)
BostonLoop(cases, db, i) ==
    IF i > Len(cases) THEN <<>>
    ELSE (IF _extract_year(cases[i].date) # 2014 THEN <<>> ELSE ColdLoop(cases[i], db, 1))
            \o BostonLoop(cases, db, i + 1)

\* a sort that is not stable: m goes in front of the entries of its own score
RECURSIVE InsertBeforeEqualScore(_, _)
InsertBeforeEqualScore(acc, m) ==
    IF acc = <<>> THEN <<m>>
    ELSE IF ~FloatLess(m.match_score, Head(acc).match_score) THEN <<m>> \o acc
    ELSE <<Head(acc)>> \o InsertBeforeEqualScore(Tail(acc), m)

\* where list.sort(key = match_score, reverse = True) puts m in the sorted list
\* acc: behind every entry whose key is not smaller (the sort is stable)
RECURSIVE InsertByScore(_, _)
InsertByScore(acc, m) ==
    IF acc = <<>> THEN <<m>>
    ELSE IF FloatLess(Head(acc).match_score, m.match_score) THEN <<m>> \o acc
    ELSE <<Head(acc)>> \o InsertByScore(Tail(acc), m)

\* list.sort(key=lambda x: x['match_score'], reverse=True)
RECURSIVE SortByScore(_)
SortByScore(ms) ==
    IF ms = <<>> THEN <<>>
    ELSE InsertByScore(SortByScore(SubSeq(ms, 1, Len(ms) - 1)), ms[Len(ms)])

\* the value find_enhanced_boston_matches leaves in self.matches
EnhancedMatches(cases, db) ==
    IF cases = <<>> THEN <<>> ELSE SortByScore(BostonLoop(cases, db, 1))
(***************************************************************************)
(* Regular-expression pieces shared by the extractors.  A piece takes the  *)
(* 0-based offset p where it has to match (NoMatch when an earlier piece   *)
(* failed) and gives the offset where its match ends, or NoMatch.  The     *)
(* group a pattern captures is a span <<from, to>>.                        *)
(***************************************************************************)
\* re.search: among the candidates <<i, span>>, one per offset i where the
\* pattern was tried, the span of the leftmost i where it matched
LeftmostSpan(tries) ==
    LET hits == {m \in tries : m[2][2] # NoMatch}
    IN  IF hits = {} THEN <<NoMatch, NoMatch>>
        ELSE (CHOOSE h \in hits : \A g \in hits : h[1] <= g[1])[2]

\* the span <<from, to>> when the rest of the pattern matched (rest # NoMatch)
SpanIf(from, to, rest) == IF to = NoMatch \/ rest = NoMatch THEN <<NoMatch, NoMatch>> ELSE <<from, to>>

\* a or, when a piece did not match, b
OrElse(a, b) == IF a # NoMatch THEN a ELSE b

\* a literal of a pattern compiled with re.IGNORECASE (lit is lower case)
LitAt(s, lit, i) == i + Len(lit) <= Len(s) /\ Lower(SubSeq(s, i + 1, i + Len(lit))) = lit

Lit(s, lit, p) == IF p # NoMatch /\ LitAt(s, lit, p) THEN p + Len(lit) ELSE NoMatch

\* x? for a literal x: greedy, and no pattern here can match without the x
\* when the x is there
OptLit(s, lit, p) == IF p # NoMatch /\ LitAt(s, lit, p) THEN p + Len(lit) ELSE p

\* \s*
Spaces0(s, p) == IF p = NoMatch THEN NoMatch ELSE p + RunLen(s, p, SpaceSet)

\* \s+
Spaces1(s, p) ==
    IF p = NoMatch \/ RunLen(s, p, SpaceSet) = 0 THEN NoMatch ELSE p + RunLen(s, p, SpaceSet)

\* \b
Boundary(s, p) == IF p # NoMatch /\ WordBoundary(s, p) THEN p ELSE NoMatch

\* \d{1,2} followed by something that is no digit: the greedy match takes two
\* digits when it can, and a third digit makes the rest of the pattern fail
Digits12(s, p) ==
    IF p # NoMatch /\ RunLen(s, p, DigitSet) \in {1, 2} THEN p + RunLen(s, p, DigitSet)
    ELSE NoMatch

months ==
    << <<"j","a","n","u","a","r","y">>, <<"f","e","b","r","u","a","r","y">>, <<"m","a","r","c","h">>, <<"a","p","r","i","l">>, <<"m","a","y">>, <<"j","u","n","e">>,
       <<"j","u","l","y">>, <<"a","u","g","u","s","t">>, <<"s","e","p","t","e","m","b","e","r">>, <<"o","c","t","o","b","e","r">>, <<"n","o","v","e","m","b","e","r">>, <<"d","e","c","e","m","b","e","r">> >>

\* (January|...|December)
Month(s, p) ==
    IF p # NoMatch /\ \E m \in 1..12 : LitAt(s, months[m], p)
    THEN p + Len(months[CHOOSE m \in 1..12 : LitAt(s, months[m], p)])
    ELSE NoMatch

\* (January|...|December)\s+\d{1,2},?\s+2014 at offset i: where it ends
Date2014At(s, i) ==
    Lit(s, <<"2","0","1","4">>, Spaces1(s, OptLit(s, <<",">>, Digits12(s, Spaces1(s, Month(s, i))))))

\* re.finditer(date_pattern, text): the starts of the non-overlapping matches
\* found from offset i on, left to right
RECURSIVE DateStartsFrom(_, _)
RECURSIVE DateStartsAfter(_, _)
DateStartsAfter(s, m) ==
    IF m[2] = NoMatch THEN <<>> ELSE <<m[1]>> \o DateStartsFrom(s, m[2])

DateStartsFrom(s, i) ==
    DateStartsAfter(s, LeftmostSpan({<<j, <<j, Date2014At(s, j)>>>> : j \in i..(Len(s) - 1)}))

(***************************************************************************)
(* The block segmenter                                                     *)
(***************************************************************************)
\* a filter that lets a block of 100 characters pass
KeepBlockFrom100(block_text) == IF Len(block_text) >= 100 THEN <<block_text>> ELSE <<>>

\* if len(block_text) > 100: blocks.append(block_text)
KeepBlock(block_text) == IF Len(block_text) > 100 THEN <<block_text>> ELSE <<>>

\* a loop that starts each block behind its date (match.end() in the place of
\* match.start())
RECURSIVE BlocksFromDateEnd(_, _, _)
BlocksFromDateEnd(text, date_matches, i) ==
    IF i > Len(date_matches) THEN <<>>
    ELSE KeepBlock(Strip(Slice(text, Date2014At(text, date_matches[i]),
                               IF i + 1 <= Len(date_matches) THEN date_matches[i + 1]
                               ELSE Len(text))))
            \o BlocksFromDateEnd(text, date_matches, i + 1)

\* the loop over date_matches (the starts of the matches), from the i-th on
RECURSIVE BlocksFrom(_, _, _)
BlocksFrom(text, date_matches, i) ==
    IF i > Len(date_matches) THEN <<>>
    ELSE KeepBlock(Strip(Slice(text, date_matches[i],
                               IF i + 1 <= Len(date_matches) THEN date_matches[i + 1]
                               ELSE Len(text))))
            \o BlocksFrom(text, date_matches, i + 1)

\* a segmenter that makes one block of a text without any date
WholeTextWithoutDate(text) ==
    IF DateStartsFrom(Strip(CollapseSpaces(text)), 0) = <<>>
    THEN <<Strip(CollapseSpaces(text))>>
    ELSE BlocksFrom(Strip(CollapseSpaces(text)),
                    DateStartsFrom(Strip(CollapseSpaces(text)), 0), 1)

_split_into_case_blocks(text) ==
    BlocksFrom(Strip(CollapseSpaces(text)), DateStartsFrom(Strip(CollapseSpaces(text)), 0), 1)

(***************************************************************************)
(* The field extractors                                                    *)
(***************************************************************************)
\* [A-Z][a-z]+ under re.IGNORECASE followed by whitespace or by nothing the
\* pattern needs: the whole run of letters, at least two of them
Word(s, p) ==
    IF p # NoMatch /\ RunLen(s, p, AlphaSet) >= 2 THEN p + RunLen(s, p, AlphaSet) ELSE NoMatch

\* (?:\s+[A-Z][a-z]+)? after a match that ends at p
OptWord(s, p) == OrElse(Word(s, Spaces1(s, p)), p)

\* ([A-Z][a-z]+\s+[A-Z][a-z]+(?:\s+[A-Z][a-z]+)?) under re.IGNORECASE
Name(s, p) == OptWord(s, Word(s, Spaces1(s, Word(s, p))))

\* the span of a name group that starts at p
NameSpan(s, p) == SpanIf(p, Name(s, p), p)

invalid_words ==
    << <<"b","o","s","t","o","n">>, <<"p","o","l","i","c","e">>, <<"d","e","p","a","r","t","m","e","n","t">>, <<"s","t","r","e","e","t">>, <<"a","v","e","n","u","e">>, <<"r","e","s","p","o","n","d","e","d">>,
       <<"p","e","r","s","o","n">>, <<"s","h","o","t">>, <<"v","i","c","t","i","m">>, <<"h","o","m","i","c","i","d","e">>, <<"m","u","r","d","e","r">>, <<"k","i","l","l","e","d">>,
       <<"j","a","n","u","a","r","y">>, <<"f","e","b","r","u","a","r","y">>, <<"m","a","r","c","h">>, <<"a","p","r","i","l">>, <<"m","a","y">>, <<"j","u","n","e">>,
       <<"j","u","l","y">>, <<"a","u","g","u","s","t">>, <<"s","e","p","t","e","m","b","e","r">>, <<"o","c","t","o","b","e","r">>, <<"n","o","v","e","m","b","e","r">>, <<"d","e","c","e","m","b","e","r">> >>

_is_valid_name(name) ==
    IF name = <<>> \/ Len(name) < 3 THEN FALSE
    ELSE ~\E w \in 1..Len(invalid_words) : Contains(invalid_words[w], Lower(name))

\* pattern1 of _extract_victim_name at offset i: the span of group 1
Pattern1At(s, i) == NameSpan(s, Spaces0(s, Date2014At(s, i)))

\* pattern2 of _extract_victim_name at offset i: the span of group 1
Pattern2At(s, i) == NameSpan(s, Spaces1(s, Lit(s, <<"a","s">>, Spaces1(s, Lit(s, <<"i","d","e","n","t","i","f","i","e","d">>, i)))))

\* re.sub(r'\d.*$', '', name): the name up to its first digit
CutAtDigit(name) == Slice(name, 0, RunLenNot(name, 0, DigitSet))

\* the name pattern1 gives, '' when it matches nowhere
Name1(text, m) ==
    IF m[2] = NoMatch THEN <<>> ELSE Strip(CutAtDigit(Strip(Slice(text, m[1], m[2]))))

\* the name pattern2 gives, '' when it matches nowhere
Name2(text, m) == IF m[2] = NoMatch THEN <<>> ELSE Strip(Slice(text, m[1], m[2]))

\* the first of the two names that is valid ('' never is), else "Unknown"
FirstValidName(name1, name2) ==
    IF _is_valid_name(name1) THEN name1
    ELSE IF _is_valid_name(name2) THEN name2
    ELSE <<"U","n","k","n","o","w","n">>

_extract_victim_name(text) ==
    FirstValidName(
        Name1(text, LeftmostSpan({<<i, Pattern1At(text, i)>> : i \in 0..(Len(text) - 1)})),
        Name2(text, LeftmostSpan({<<i, Pattern2At(text, i)>> : i \in 0..(Len(text) - 1)})))

\* (\d{1,2})\s*year[s]?\s*old at offset i: the span of group 1
AgePattern1At(s, i) ==
    SpanIf(i, Digits12(s, i),
           Lit(s, <<"o","l","d">>, Spaces0(s, OptLit(s, <<"s">>, Lit(s, <<"y","e","a","r">>, Spaces0(s, Digits12(s, i)))))))

\* the span of a last group (\d{1,2}) that starts at p: one digit or two
DigitsSpan(s, p) ==
    IF p = NoMatch \/ RunLen(s, p, DigitSet) = 0 THEN <<NoMatch, NoMatch>>
    ELSE IF RunLen(s, p, DigitSet) > 2 THEN <<p, p + 2>>
    ELSE <<p, p + RunLen(s, p, DigitSet)>>

\* age\s*(\d{1,2}) at offset i: the span of group 1
AgePattern2At(s, i) == DigitsSpan(s, Spaces0(s, Lit(s, <<"a","g","e">>, i)))

\* (\d{1,2})\s*y/?o\b at offset i: the span of group 1
AgePattern3At(s, i) ==
    SpanIf(i, Digits12(s, i),
           Boundary(s, Lit(s, <<"o">>, OptLit(s, <<"/">>, Lit(s, <<"y">>, Spaces0(s, Digits12(s, i)))))))

\* (\d{1,2})-year-old at offset i: the span of group 1
AgePattern4At(s, i) == SpanIf(i, Digits12(s, i), Lit(s, <<"-","y","e","a","r","-","o","l","d">>, Digits12(s, i)))

\* \b(\d{1,2})\s*years?\s*of\s*age at offset i: the span of group 1
AgePattern5At(s, i) ==
    SpanIf(i, Digits12(s, Boundary(s, i)),
           Lit(s, <<"a","g","e">>, Spaces0(s, Lit(s, <<"o","f">>, Spaces0(s, OptLit(s, <<"s">>,
               Lit(s, <<"y","e","a","r">>, Spaces0(s, Digits12(s, Boundary(s, i))))))))))

\* the p-th pattern of _extract_age at offset i
AgePatternAt(text, p, i) ==
    CASE p = 1 -> AgePattern1At(text, i)
      [] p = 2 -> AgePattern2At(text, i)
      [] p = 3 -> AgePattern3At(text, i)
      [] p = 4 -> AgePattern4At(text, i)
      [] OTHER -> AgePattern5At(text, i)

\* re.search of the p-th age pattern: the span of group 1 of the leftmost match
AgeSearch(text, p) ==
    LeftmostSpan({<<i, AgePatternAt(text, p, i)>> : i \in 0..(Len(text) - 1)})

\* int(match.group(1)), None without a match
GroupInt(text, m) == IF m[2] = NoMatch THEN NoneInt ELSE ParseInt(Slice(text, m[1], m[2]))

\* the loop of _extract_age from the p-th pattern on; AgeOr is one round of
\* it, for the match m of the p-th pattern
RECURSIVE AgeFrom(_, _)
RECURSIVE AgeOr(_, _, _)
\* a round that returns None when the capture is out of range
AgeOrGiveUp(text, p, m) ==
    IF m[2] = NoMatch THEN AgeFrom(text, p + 1)
    ELSE IF 1 <= GroupInt(text, m) /\ GroupInt(text, m) <= 100 THEN GroupInt(text, m)
    ELSE NoneInt

AgeOr(text, p, m) ==
    IF m[2] # NoMatch /\ 1 <= GroupInt(text, m) /\ GroupInt(text, m) <= 100
    THEN GroupInt(text, m)
    ELSE AgeFrom(text, p + 1)

AgeFrom(text, p) == IF p > 5 THEN NoneInt ELSE AgeOr(text, p, AgeSearch(text, p))

_extract_age(text) == AgeFrom(text, 1)
\* (\d{1,2}<sep>\d{1,2}<sep>2014) at offset i, for sep "/" or "-": where it ends
NumericDate2014At(s, i, sep) ==
    Lit(s, <<"2","0","1","4">>, Lit(s, <<sep>>, Digits12(s, Lit(s, <<sep>>, Digits12(s, i)))))

\* the p-th pattern of _extract_date at offset i: where it ends
DatePatternAt(text, p, i) ==
    CASE p = 1 -> Date2014At(text, i)
      [] p = 2 -> NumericDate2014At(text, i, "/")
      [] OTHER -> NumericDate2014At(text, i, "-")

\* the loop of _extract_date from the p-th pattern on; DateOr is one round
\* of it, for the match m of the p-th pattern
RECURSIVE DateFrom(_, _)
RECURSIVE DateOr(_, _, _)
DateOr(text, p, m) ==
    IF m[2] # NoMatch THEN Slice(text, m[1], m[2]) ELSE DateFrom(text, p + 1)

DateFrom(text, p) ==
    IF p > 3 THEN None
    ELSE DateOr(text, p,
                LeftmostSpan({<<i, <<i, DatePatternAt(text, p, i)>>>> : i \in 0..(Len(text) - 1)}))

_extract_date(text) == DateFrom(text, 1)

street_suffixes ==
    << <<"s","t","r","e","e","t">>, <<"s","t">>, <<"a","v","e","n","u","e">>, <<"a","v","e">>, <<"r","o","a","d">>, <<"r","d">>, <<"b","o","u","l","e","v","a","r","d">>,
       <<"b","l","v","d">>, <<"d","r","i","v","e">>, <<"d","r">>, <<"w","a","y">>, <<"p","l","a","c","e">>, <<"p","l">> >>

\* the k-th suffix and the closing \b at offset p
SuffixOk(s, k, p) ==
    LitAt(s, street_suffixes[k], p) /\ WordBoundary(s, p + Len(street_suffixes[k]))

\* (?:Street|St|...|Pl))\b: no two suffixes match at one place
Suffix(s, p) ==
    IF p # NoMatch /\ \E k \in 1..Len(street_suffixes) : SuffixOk(s, k, p)
    THEN p + Len(street_suffixes[CHOOSE k \in 1..Len(street_suffixes) : SuffixOk(s, k, p)])
    ELSE NoMatch

\* (?:\s+[A-Z][a-z]+)*\s+(?:Street|...))\b from p, the end of a word: the
\* star is greedy, so a match through more words is preferred
RECURSIVE StreetTail(_, _)
StreetTail(s, p) ==
    IF p = NoMatch THEN NoMatch
    ELSE OrElse(StreetTail(s, Word(s, Spaces1(s, p))), Suffix(s, Spaces1(s, p)))

\* \d+
Digits1(s, p) ==
    IF p = NoMatch \/ RunLen(s, p, DigitSet) = 0 THEN NoMatch ELSE p + RunLen(s, p, DigitSet)

\* the street-address pattern of _extract_location at offset i: where it ends
StreetAt(s, i) == StreetTail(s, Word(s, Spaces1(s, Digits1(s, Boundary(s, i)))))

neighborhoods ==
    << <<"r","o","x","b","u","r","y">>, <<"d","o","r","c","h","e","s","t","e","r">>, <<"m","a","t","t","a","p","a","n">>, <<"s","o","u","t","h"," ","e","n","d">>, <<"b","a","c","k"," ","b","a","y">>,
       <<"j","a","m","a","i","c","a"," ","p","l","a","i","n">>, <<"c","h","a","r","l","e","s","t","o","w","n">>, <<"e","a","s","t"," ","b","o","s","t","o","n">>, <<"s","o","u","t","h"," ","b","o","s","t","o","n">>,
       <<"b","r","i","g","h","t","o","n">>, <<"a","l","l","s","t","o","n">>, <<"f","e","n","w","a","y">>, <<"n","o","r","t","h"," ","e","n","d">> >>

\* the first neighborhood of the list among hoods, the places in the list of
\* those the text names
FirstHood(hoods) ==
    IF hoods # {} THEN neighborhoods[Leftmost(hoods)] ELSE <<"u","n","k","n","o","w","n"," ","l","o","c","a","t","i","o","n">>

\* the location for the match m of the street pattern
LocationOf(text, m) ==
    IF m[2] # NoMatch THEN Strip(CollapseSpaces(Lower(Slice(text, m[1], m[2]))))
    ELSE FirstHood({k \in 1..Len(neighborhoods) : Contains(neighborhoods[k], Lower(text))})

_extract_location(text) ==
    LocationOf(text, LeftmostSpan({<<i, <<i, StreetAt(text, i)>>>> : i \in 0..(Len(text) - 1)}))

male_indicators == << <<"m","a","l","e">>, <<"m","a","n">>, <<"b","o","y">>, <<"h","e"," ">>, <<"h","i","s"," ">>, <<"h","i","m"," ">>, <<"m","r",".">> >>

female_indicators == << <<"f","e","m","a","l","e">>, <<"w","o","m","a","n">>, <<"g","i","r","l">>, <<"s","h","e"," ">>, <<"h","e","r"," ">>, <<"h","e","r","s"," ">>, <<"m","s",".">> >>

\* sum(1 for word in indicators if word in text_lower)
IndicatorCount(indicators, text_lower) ==
    Cardinality({k \in 1..Len(indicators) : Contains(indicators[k], text_lower)})

GenderOf(male_count, female_count) ==
    IF male_count > female_count THEN "male"
    ELSE IF female_count > male_count THEN "female"
    ELSE "unknown"

_extract_gender(text) ==
    GenderOf(IndicatorCount(male_indicators, Lower(text)),
             IndicatorCount(female_indicators, Lower(text)))

boilerplate_phrases ==
    << (* "Our greatest resource in solving homicide cases is information from witnesses, family, friends and the community." *)
            <<"O","u","r"," ","g","r","e","a","t","e","s","t"," ","r","e","s","o","u","r","c","e",
            " ","i","n"," ","s","o","l","v","i","n","g"," ","h","o","m","i","c","i","d","e"," ",
            "c","a","s","e","s"," ","i","s"," ","i","n","f","o","r","m","a","t","i","o","n"," ",
            "f","r","o","m"," ","w","i","t","n","e","s","s","e","s",","," ","f","a","m","i","l",
            "y",","," ","f","r","i","e","n","d","s"," ","a","n","d"," ","t","h","e"," ","c","o",
            "m","m","u","n","i","t","y",".">>,
       (* "If you have any information regarding this case, please contact the Boston Police Department" *)
            <<"I","f"," ","y","o","u"," ","h","a","v","e"," ","a","n","y"," ","i","n","f","o","r",
            "m","a","t","i","o","n"," ","r","e","g","a","r","d","i","n","g"," ","t","h","i","s",
            " ","c","a","s","e",","," ","p","l","e","a","s","e"," ","c","o","n","t","a","c","t",
            " ","t","h","e"," ","B","o","s","t","o","n"," ","P","o","l","i","c","e"," ","D","e",
            "p","a","r","t","m","e","n","t">>,
       (* "Anyone with information is asked to contact" *)
            <<"A","n","y","o","n","e"," ","w","i","t","h"," ","i","n","f","o","r","m","a","t","i",
            "o","n"," ","i","s"," ","a","s","k","e","d"," ","t","o"," ","c","o","n","t","a","c",
            "t">> >>

\* str.replace(phrase, ""), from offset i on
RECURSIVE RemoveAll(_, _, _)
RemoveAll(s, phrase, i) ==
    LET n == Leftmost({j \in i..(Len(s) - 1) : StartsAt(s, phrase, j)})
    IN  IF n = NoMatch THEN Slice(s, i, Len(s))
        ELSE Slice(s, i, n) \o RemoveAll(s, phrase, n + Len(phrase))

\* \d{a}-\d{b}-\d{c} behind an optional literal prefix, at offset i
PhoneAt(s, i, prefix, a, b, c) ==
    LET p == IF StartsAt(s, prefix, i) THEN i + Len(prefix) ELSE NoMatch
        Group(j, n, dash) ==
            IF j # NoMatch /\ RunLen(s, j, DigitSet) >= n
               /\ (~dash \/ StartsAt(s, <<"-">>, j + n))
            THEN j + n + (IF dash THEN 1 ELSE 0)
            ELSE NoMatch
    IN  IF a = 0 THEN Group(Group(p, b, TRUE), c, FALSE)
        ELSE Group(Group(Group(p, a, TRUE), b, TRUE), c, FALSE)

\* re.sub(pattern, '', s) for the two phone patterns, from offset i on
RECURSIVE RemovePhones(_, _, _, _)
RemovePhones(s, i, prefix, a) ==
    LET n == Leftmost({j \in i..(Len(s) - 1) : PhoneAt(s, j, prefix, a, 3, 4) # NoMatch})
    IN  IF n = NoMatch THEN Slice(s, i, Len(s))
        ELSE Slice(s, i, n) \o RemovePhones(s, PhoneAt(s, n, prefix, a, 3, 4), prefix, a)

\* if len(text) > 300: text = text[:300] + "..."
Truncate(text) == IF Len(text) > 300 THEN Slice(text, 0, 300) \o <<".",".",".">> ELSE text

_clean_description(text) ==
    Strip(Truncate(Strip(CollapseSpaces(
        RemovePhones(
            RemovePhones(
                RemoveAll(RemoveAll(RemoveAll(Strip(CollapseSpaces(text)),
                                              boilerplate_phrases[1], 0),
                                    boilerplate_phrases[2], 0),
                          boilerplate_phrases[3], 0),
                0, <<>>, 3),
            0, <<"1","-","8","0","0","-">>, 0)))))

\* the dict _extract_boston_case_info builds; NoCase stands for its None
NoCase == [source |-> "none"]

_extract_boston_case_info(text) ==
    IF text = <<>> \/ Len(text) < 50 THEN NoCase
    ELSE [source |-> "boston_police",
          victim_name |-> _extract_victim_name(text),
          age |-> _extract_age(text),
          gender |-> _extract_gender(text),
          date |-> _extract_date(text),
          location |-> _extract_location(text),
          description |-> _clean_description(text)]

\* a check that accepts every record there is
IsPresentCase(case_info) == case_info # NoCase

_is_valid_case(case_info) ==
    IF case_info = NoCase THEN FALSE
    ELSE LET has_name == Truthy(case_info.victim_name) /\ case_info.victim_name # <<"U","n","k","n","o","w","n">>
             has_location == Truthy(case_info.location)
                                /\ case_info.location # <<"u","n","k","n","o","w","n"," ","l","o","c","a","t","i","o","n">>
                                /\ Len(case_info.location) > 5
             has_description == Truthy(case_info.description)
                                   /\ Len(case_info.description) > 100
             has_date == case_info.date # None
         IN  (has_name /\ has_date) \/ (has_location /\ has_date) \/ has_description

\* f"{name}-{location}-{date}"
Signature(case) ==
    StrOf(case.victim_name) \o <<"-">> \o StrOf(case.location) \o <<"-">> \o StrOf(case.date)

\* a de-duplicator that removes from the list it iterates over, so that the
\* record behind a removed one is not looked at
RECURSIVE RemoveWhileIterating(_, _, _)
RemoveWhileIterating(cases, i, seen_signatures) ==
    IF i > Len(cases) THEN cases
    ELSE IF Signature(cases[i]) \in seen_signatures
    THEN RemoveWhileIterating(SubSeq(cases, 1, i - 1) \o SubSeq(cases, i + 1, Len(cases)),
                              i + 1, seen_signatures)
    ELSE RemoveWhileIterating(cases, i + 1, seen_signatures \cup {Signature(cases[i])})

\* the loop of _remove_duplicate_cases from cases[i], with the signatures seen so far
RECURSIVE DedupFrom(_, _, _)
DedupFrom(cases, i, seen_signatures) ==
    IF i > Len(cases) THEN <<>>
    ELSE IF Signature(cases[i]) \notin seen_signatures
    THEN <<cases[i]>> \o DedupFrom(cases, i + 1, seen_signatures \cup {Signature(cases[i])})
    ELSE DedupFrom(cases, i + 1, seen_signatures)

\* a de-duplicator that keeps, in the place of the first record of a
\* signature, the last record of it (unique[signature] = case)
LastOfEachSignature(cases) ==
    LET first == DedupFrom(cases, 1, {})
        Last(k) == CHOOSE i \in 1..Len(cases) :
                      /\ Signature(cases[i]) = Signature(first[k])
                      /\ \A j \in (i + 1)..Len(cases) : Signature(cases[j]) # Signature(first[k])
    IN  [k \in 1..Len(first) |-> cases[Last(k)]]

_remove_duplicate_cases(cases) == DedupFrom(cases, 1, {})

(***************************************************************************)
(* The secondary source                                                    *)
(***************************************************************************)
boston_indicators == << <<"b","o","s","t","o","n">>, <<"m","a","s","s","a","c","h","u","s","e","t","t","s">>, <<"m","a">>, <<"s","u","f","f","o","l","k"," ","c","o","u","n","t","y">> >>

_is_boston_case(text) ==
    (\E k \in 1..Len(boston_indicators) : Contains(boston_indicators[k], Lower(text)))
        /\ Len(text) > 30

LowerSet == {LowerChars[i] : i \in 1..26}

\* [A-Z][a-z]+ (case-sensitive), its lower-case run taken whole
CapWord(s, p) ==
    IF p # NoMatch /\ p < Len(s) /\ s[p + 1] \in UpperSet /\ RunLen(s, p + 1, LowerSet) >= 1
    THEN p + 1 + RunLen(s, p + 1, LowerSet)
    ELSE NoMatch

\* \b([A-Z][a-z]+\s+[A-Z][a-z]+)\b at offset i: where it ends
ColdNameAt(s, i) == Boundary(s, CapWord(s, Spaces1(s, CapWord(s, Boundary(s, i)))))

\* \b(\d{1,2})\s*year[s]?\s*old\b at offset i: the span of group 1
ColdAgeAt(s, i) ==
    SpanIf(i, Digits12(s, Boundary(s, i)),
           Boundary(s, Lit(s, <<"o","l","d">>, Spaces0(s, OptLit(s, <<"s">>,
               Lit(s, <<"y","e","a","r">>, Spaces0(s, Digits12(s, Boundary(s, i)))))))))

\* \d{lo,hi} before something that is no digit
DigitsN(s, p, lo, hi) ==
    IF p # NoMatch /\ RunLen(s, p, DigitSet) \in lo..hi THEN p + RunLen(s, p, DigitSet)
    ELSE NoMatch

\* [/-]
Sep(s, p) ==
    IF p # NoMatch /\ (StartsAt(s, <<"/">>, p) \/ StartsAt(s, <<"-">>, p)) THEN p + 1 ELSE NoMatch

\* \b(\d{1,2})[/-](\d{1,2})[/-](\d{4})\b at offset i: where it ends
ColdDate1At(s, i) ==
    Boundary(s, DigitsN(s, Sep(s, DigitsN(s, Sep(s, DigitsN(s, Boundary(s, i), 1, 2)), 1, 2)), 4, 4))

\* \b(\d{4})[/-](\d{1,2})[/-](\d{1,2})\b at offset i: where it ends
ColdDate2At(s, i) ==
    Boundary(s, DigitsN(s, Sep(s, DigitsN(s, Sep(s, DigitsN(s, Boundary(s, i), 4, 4)), 1, 2)), 1, 2))

\* \b(january|...|december)\s+(\d{1,2}),?\s+(\d{4})\b at offset i: where it ends
ColdDate3At(s, i) ==
    Boundary(s, DigitsN(s, Spaces1(s, OptLit(s, <<",">>,
        Digits12(s, Spaces1(s, Month(s, Boundary(s, i)))))), 4, 4))

\* the p-th of date_patterns at offset i: where it ends
ColdDateAt(s, p, i) ==
    CASE p = 1 -> ColdDate1At(s, i)
      [] p = 2 -> ColdDate2At(s, i)
      [] OTHER -> ColdDate3At(s, i)

\* the loop over date_patterns from the p-th pattern on; ColdDateOr is one
\* round of it, for the match m of the p-th pattern
RECURSIVE ColdDateFrom(_, _)
RECURSIVE ColdDateOr(_, _, _)
ColdDateOr(text_lower, p, m) ==
    IF m[2] # NoMatch THEN Slice(text_lower, m[1], m[2]) ELSE ColdDateFrom(text_lower, p + 1)

ColdDateFrom(text_lower, p) ==
    IF p > 3 THEN None
    ELSE ColdDateOr(text_lower, p,
             LeftmostSpan({<<i, <<i, ColdDateAt(text_lower, p, i)>>>> : i \in 0..(Len(text_lower) - 1)}))

\* name_matches[0] if name_matches else "Unknown", for the first match m
ColdNameOf(text, m) == IF m[2] = NoMatch THEN <<"U","n","k","n","o","w","n">> ELSE Slice(text, m[1], m[2])

\* int(age_match.group(1)) if age_match else None
ColdAgeOf(text_lower) ==
    GroupInt(text_lower,
             LeftmostSpan({<<i, ColdAgeAt(text_lower, i)>> : i \in 0..(Len(text_lower) - 1)}))

_extract_cold_case_info(text) ==
    [source |-> "cold_case_db",
     victim_name |-> ColdNameOf(text,
         LeftmostSpan({<<i, <<i, ColdNameAt(text, i)>>>> : i \in 0..(Len(text) - 1)})),
     age |-> ColdAgeOf(Lower(text)),
     date |-> ColdDateFrom(Lower(text), 1),
     location |-> _extract_location(text),
     description |-> IF Len(text) > 200 THEN Slice(text, 0, 200) \o <<".",".",".">> ELSE text]

(***************************************************************************)
(* ColdCaseCrossChecker: the state of one checker and its methods          *)
(***************************************************************************)
\* case_info with case_info['case_id'] = case_id
WithCaseId(case_info, case_id) ==
    [source |-> case_info.source,
     victim_name |-> case_info.victim_name,
     age |-> case_info.age,
     gender |-> case_info.gender,
     date |-> case_info.date,
     location |-> case_info.location,
     description |-> case_info.description,
     case_id |-> case_id]

\* the loop of scrape_boston_cases over case_blocks, from the block of index i
\* (1-based here, so that case_id is the index itself)
\* what one round of the loop appends: the valid record with its case_id
KeepCase(case_info, case_id) ==
    IF case_info # NoCase /\ _is_valid_case(case_info)
    THEN <<WithCaseId(case_info, case_id)>>
    ELSE <<>>

RECURSIVE BlockLoop(_, _)
BlockLoop(case_blocks, i) ==
    IF i > Len(case_blocks) THEN <<>>
    ELSE KeepCase(_extract_boston_case_info(case_blocks[i]), i) \o BlockLoop(case_blocks, i + 1)

\* the loop of scrape_cold_case_db over the texts of case_elements
RECURSIVE ElementLoop(_, _)
ElementLoop(texts, i) ==
    IF i > Len(texts) THEN <<>>
    ELSE (IF _is_boston_case(texts[i]) THEN <<_extract_cold_case_info(texts[i])>> ELSE <<>>)
            \o ElementLoop(texts, i + 1)

(***************************************************************************)
(* The pages the two sites may serve.  A page of the Boston site is the    *)
(* text content.get_text() yields; a page of the cold-case site is the     *)
(* list of the texts of its case elements.                                 *)
(***************************************************************************)
\* page 1: a heading and two blocks, the case of John Smith and the case of
\*   Robert Jones;
\* page 2: a block with a date only and nothing but boilerplate behind it (no
\*   name, no location, no description of substance), a span too short to be
\*   a block, and a block without a name, in Mattapan;
\* page 3: the case of John Smith worded differently, and the case of Robert
\*   Jones as on page 1;
\* page 4: a page without any date;
\* page 5: the body of an error answer of the server (HTTP status 404)
BostonPages ==
    << <<"U","n","s","o","l","v","e","d"," ","H","o","m","i","c","i","d","e","s"," ","2","0","1","4">> \o <<"\n", "\n">>
         \o (* "January 5, 2014 John Smith 12 Dorchester Avenue. Boston Police responded to a call for a person shot. The victim, 30 years old, was pronounced deceased at the scene." *)
            <<"J","a","n","u","a","r","y"," ","5",","," ","2","0","1","4"," ","J","o","h","n"," ",
            "S","m","i","t","h"," ","1","2"," ","D","o","r","c","h","e","s","t","e","r"," ","A",
            "v","e","n","u","e","."," ","B","o","s","t","o","n"," ","P","o","l","i","c","e"," ",
            "r","e","s","p","o","n","d","e","d"," ","t","o"," ","a"," ","c","a","l","l"," ","f",
            "o","r"," ","a"," ","p","e","r","s","o","n"," ","s","h","o","t","."," ","T","h","e",
            " ","v","i","c","t","i","m",","," ","3","0"," ","y","e","a","r","s"," ","o","l","d",
            ","," ","w","a","s"," ","p","r","o","n","o","u","n","c","e","d"," ","d","e","c","e",
            "a","s","e","d"," ","a","t"," ","t","h","e"," ","s","c","e","n","e",".">>
         \o <<"\n">>
         \o (* "March 12, 2014 Officers responded to a radio call in Roxbury. The victim was later identified as Robert Jones, 34 years old, and was pronounced deceased." *)
            <<"M","a","r","c","h"," ","1","2",","," ","2","0","1","4"," ","O","f","f","i","c","e",
            "r","s"," ","r","e","s","p","o","n","d","e","d"," ","t","o"," ","a"," ","r","a","d",
            "i","o"," ","c","a","l","l"," ","i","n"," ","R","o","x","b","u","r","y","."," ","T",
            "h","e"," ","v","i","c","t","i","m"," ","w","a","s"," ","l","a","t","e","r"," ","i",
            "d","e","n","t","i","f","i","e","d"," ","a","s"," ","R","o","b","e","r","t"," ","J",
            "o","n","e","s",","," ","3","4"," ","y","e","a","r","s"," ","o","l","d",","," ","a",
            "n","d"," ","w","a","s"," ","p","r","o","n","o","u","n","c","e","d"," ","d","e","c",
            "e","a","s","e","d",".">>,
       (* "June 1, 2014 Boston Police. " *)
            <<"J","u","n","e"," ","1",","," ","2","0","1","4"," ","B","o","s","t","o","n"," ","P",
            "o","l","i","c","e","."," ">> \o boilerplate_phrases[1] \o <<"\n">>
         \o (* "May 2, 2014 Investigation pending." *)
            <<"M","a","y"," ","2",","," ","2","0","1","4"," ","I","n","v","e","s","t","i","g","a",
            "t","i","o","n"," ","p","e","n","d","i","n","g",".">> \o <<" ">>
         \o (* "July 4, 2014 Boston Police officers responded to a report of shots fired in Mattapan. On arrival, officers located an adult male suffering from gunshot wounds." *)
            <<"J","u","l","y"," ","4",","," ","2","0","1","4"," ","B","o","s","t","o","n"," ","P",
            "o","l","i","c","e"," ","o","f","f","i","c","e","r","s"," ","r","e","s","p","o","n",
            "d","e","d"," ","t","o"," ","a"," ","r","e","p","o","r","t"," ","o","f"," ","s","h",
            "o","t","s"," ","f","i","r","e","d"," ","i","n"," ","M","a","t","t","a","p","a","n",
            "."," ","O","n"," ","a","r","r","i","v","a","l",","," ","o","f","f","i","c","e","r",
            "s"," ","l","o","c","a","t","e","d"," ","a","n"," ","a","d","u","l","t"," ","m","a",
            "l","e"," ","s","u","f","f","e","r","i","n","g"," ","f","r","o","m"," ","g","u","n",
            "s","h","o","t"," ","w","o","u","n","d","s",".">>,
       (* "January 5, 2014 John Smith 12 Dorchester Avenue. Detectives continue to review the facts of this case and the victim, age 31, has not been forgotten by his family." *)
            <<"J","a","n","u","a","r","y"," ","5",","," ","2","0","1","4"," ","J","o","h","n"," ",
            "S","m","i","t","h"," ","1","2"," ","D","o","r","c","h","e","s","t","e","r"," ","A",
            "v","e","n","u","e","."," ","D","e","t","e","c","t","i","v","e","s"," ","c","o","n",
            "t","i","n","u","e"," ","t","o"," ","r","e","v","i","e","w"," ","t","h","e"," ","f",
            "a","c","t","s"," ","o","f"," ","t","h","i","s"," ","c","a","s","e"," ","a","n","d",
            " ","t","h","e"," ","v","i","c","t","i","m",","," ","a","g","e"," ","3","1",","," ",
            "h","a","s"," ","n","o","t"," ","b","e","e","n"," ","f","o","r","g","o","t","t","e",
            "n"," ","b","y"," ","h","i","s"," ","f","a","m","i","l","y",".">>
         \o <<" ">>
         \o (* "March 12, 2014 Officers responded to a radio call in Roxbury. The victim was later identified as Robert Jones, 34 years old, and was pronounced deceased." *)
            <<"M","a","r","c","h"," ","1","2",","," ","2","0","1","4"," ","O","f","f","i","c","e",
            "r","s"," ","r","e","s","p","o","n","d","e","d"," ","t","o"," ","a"," ","r","a","d",
            "i","o"," ","c","a","l","l"," ","i","n"," ","R","o","x","b","u","r","y","."," ","T",
            "h","e"," ","v","i","c","t","i","m"," ","w","a","s"," ","l","a","t","e","r"," ","i",
            "d","e","n","t","i","f","i","e","d"," ","a","s"," ","R","o","b","e","r","t"," ","J",
            "o","n","e","s",","," ","3","4"," ","y","e","a","r","s"," ","o","l","d",","," ","a",
            "n","d"," ","w","a","s"," ","p","r","o","n","o","u","n","c","e","d"," ","d","e","c",
            "e","a","s","e","d",".">>,
       (* "No unsolved homicides are listed for this year." *)
            <<"N","o"," ","u","n","s","o","l","v","e","d"," ","h","o","m","i","c","i","d","e","s",
            " ","a","r","e"," ","l","i","s","t","e","d"," ","f","o","r"," ","t","h","i","s"," ",
            "y","e","a","r",".">>,
       (* "404 Not Found. The requested page could not be found on this server." *)
            <<"4","0","4"," ","N","o","t"," ","F","o","u","n","d","."," ","T","h","e"," ","r","e",
            "q","u","e","s","t","e","d"," ","p","a","g","e"," ","c","o","u","l","d"," ","n","o",
            "t"," ","b","e"," ","f","o","u","n","d"," ","o","n"," ","t","h","i","s"," ","s","e",
            "r","v","e","r",".">> >>

\* response.status_code of the answer with page p, which scrape_boston_cases
\* never reads
BostonStatus == <<200, 200, 200, 200, 404>>

\* page 1: John Smith and Bob Jones; page 2: an unnamed victim, a victim
\* without age and date, and an element that is no Boston case; page 3: Bob
\* Jones once more, and an infant; page 4: the paragraph of an error answer of
\* the server (HTTP status 503)
ColdPages ==
    << << (* "John Smith, 30 years old, killed 1/5/2014 at 12 Dorchester Avenue, Boston, MA" *)
            <<"J","o","h","n"," ","S","m","i","t","h",","," ","3","0"," ","y","e","a","r","s"," ",
            "o","l","d",","," ","k","i","l","l","e","d"," ","1","/","5","/","2","0","1","4"," ",
            "a","t"," ","1","2"," ","D","o","r","c","h","e","s","t","e","r"," ","A","v","e","n",
            "u","e",","," ","B","o","s","t","o","n",","," ","M","A">>,
          (* "Bob Jones 35 years old missing since 3/9/2013 from Roxbury, Massachusetts" *)
            <<"B","o","b"," ","J","o","n","e","s"," ","3","5"," ","y","e","a","r","s"," ","o","l",
            "d"," ","m","i","s","s","i","n","g"," ","s","i","n","c","e"," ","3","/","9","/","2",
            "0","1","3"," ","f","r","o","m"," ","R","o","x","b","u","r","y",","," ","M","a","s",
            "s","a","c","h","u","s","e","t","t","s">> >>,
       << (* "Unidentified male found 2011-03-04 near Charlestown, Suffolk County" *)
            <<"U","n","i","d","e","n","t","i","f","i","e","d"," ","m","a","l","e"," ","f","o","u",
            "n","d"," ","2","0","1","1","-","0","3","-","0","4"," ","n","e","a","r"," ","C","h",
            "a","r","l","e","s","t","o","w","n",","," ","S","u","f","f","o","l","k"," ","C","o",
            "u","n","t","y">>,
          (* "Jane Roe homicide unsolved, Roxbury, MA" *)
            <<"J","a","n","e"," ","R","o","e"," ","h","o","m","i","c","i","d","e"," ","u","n","s",
            "o","l","v","e","d",","," ","R","o","x","b","u","r","y",","," ","M","A">>,
          (* "Chicago, Illinois 1/1/2014 Al Doe" *)
            <<"C","h","i","c","a","g","o",","," ","I","l","l","i","n","o","i","s"," ","1","/","1",
            "/","2","0","1","4"," ","A","l"," ","D","o","e">> >>,
       << (* "Bob Jones 35 years old missing since 3/9/2013 from Roxbury, Massachusetts" *)
            <<"B","o","b"," ","J","o","n","e","s"," ","3","5"," ","y","e","a","r","s"," ","o","l",
            "d"," ","m","i","s","s","i","n","g"," ","s","i","n","c","e"," ","3","/","9","/","2",
            "0","1","3"," ","f","r","o","m"," ","R","o","x","b","u","r","y",","," ","M","a","s",
            "s","a","c","h","u","s","e","t","t","s">>,
          (* "Baby Doe, 0 years old, found 3/9/2013 in Boston, MA" *)
            <<"B","a","b","y"," ","D","o","e",","," ","0"," ","y","e","a","r","s"," ","o","l","d",
            ","," ","f","o","u","n","d"," ","3","/","9","/","2","0","1","3"," ","i","n"," ","B",
            "o","s","t","o","n",","," ","M","A">> >>,
       << (* "Service temporarily unavailable. Please email the webmaster." *)
            <<"S","e","r","v","i","c","e"," ","t","e","m","p","o","r","a","r","i","l","y"," ","u",
            "n","a","v","a","i","l","a","b","l","e","."," ","P","l","e","a","s","e"," ","e","m",
            "a","i","l"," ","t","h","e"," ","w","e","b","m","a","s","t","e","r",".">> >> >>

\* response.status_code of the answer with page p, which scrape_cold_case_db
\* never reads
ColdStatus == <<200, 200, 200, 503>>

\* what the loop of scrape_boston_cases appends when the site serves page p
BostonPageCases ==
    [p \in 1..Len(BostonPages) |-> BlockLoop(_split_into_case_blocks(BostonPages[p]), 1)]

\* what the loop of scrape_cold_case_db appends when the site serves page p
ColdPageCases == [p \in 1..Len(ColdPages) |-> ElementLoop(ColdPages[p], 1)]

(***************************************************************************)
(* The checker as a state machine                                          *)
(***************************************************************************)
VARIABLES
    boston_cases,   \* self.boston_cases
    cold_case_db,   \* self.cold_case_db
    matches,        \* self.matches
    last_call,      \* the last method called, what it read and what it returned
    calls,          \* the number of method calls made so far
    input,          \* the argument of a function checked on its own
    output,         \* what that function returned
    pc              \* how far the function checked on its own has got

vars == <<boston_cases, cold_case_db, matches, last_call, calls, input, output, pc>>

checker == <<boston_cases, cold_case_db, matches, last_call, calls>>

MaxCalls == 4

\* ColdCaseCrossChecker.__init__
InitChecker ==
    /\ boston_cases = <<>>
    /\ cold_case_db = <<>>
    /\ matches = <<>>
    /\ last_call = [op |-> "__init__", page |-> 0, status |-> "", n |-> 0]
    /\ calls = 0

Init ==
    /\ InitChecker
    /\ input = <<>>
    /\ output = <<>>
    /\ pc = "checker"

\* a scrape that appends the cases of the page and leaves the duplicates in
ScrapeBostonPageKeepsDuplicates(p) ==
    /\ calls < MaxCalls
    /\ calls' = calls + 1
    /\ boston_cases' = boston_cases \o BostonPageCases[p]
    /\ last_call' = [op |-> "scrape_boston_cases", page |-> p,
                     status |-> IF boston_cases' = <<>> THEN "Warning" ELSE "Found",
                     n |-> Len(boston_cases')]
    /\ UNCHANGED <<cold_case_db, matches, input, output, pc>>

\* scrape_boston_cases when the site answers with page p
ScrapeBostonPage(p) ==
    /\ calls < MaxCalls
    /\ calls' = calls + 1
    /\ boston_cases' = _remove_duplicate_cases(boston_cases \o BostonPageCases[p])
    /\ last_call' = [op |-> "scrape_boston_cases", page |-> p,
                     status |-> IF boston_cases' = <<>> THEN "Warning" ELSE "Found",
                     n |-> Len(boston_cases')]
    /\ UNCHANGED <<cold_case_db, matches, input, output, pc>>

\* scrape_boston_cases when requests.get raises
ScrapeBostonError ==
    /\ calls < MaxCalls
    /\ calls' = calls + 1
    /\ last_call' = [op |-> "scrape_boston_cases", page |-> 0, status |-> "Error", n |-> 0]
    /\ UNCHANGED <<boston_cases, cold_case_db, matches, input, output, pc>>

\* scrape_cold_case_db when the site answers with page p
ScrapeColdPage(p) ==
    /\ calls < MaxCalls
    /\ calls' = calls + 1
    /\ cold_case_db' = cold_case_db \o ColdPageCases[p]
    /\ last_call' = [op |-> "scrape_cold_case_db", page |-> p,
                     status |-> IF cold_case_db' = <<>> THEN "Warning" ELSE "Found",
                     n |-> Len(cold_case_db')]
    /\ UNCHANGED <<boston_cases, matches, input, output, pc>>

\* scrape_cold_case_db when requests.get raises
ScrapeColdError ==
    /\ calls < MaxCalls
    /\ calls' = calls + 1
    /\ last_call' = [op |-> "scrape_cold_case_db", page |-> 0, status |-> "Error", n |-> 0]
    /\ UNCHANGED <<boston_cases, cold_case_db, matches, input, output, pc>>

\* a matcher without the reset of self.matches: the candidates of the call are
\* appended to those of the earlier calls before the sort
FindKeepsOldMatches ==
    /\ calls < MaxCalls
    /\ calls' = calls + 1
    /\ matches' = SortByScore(matches \o BostonLoop(boston_cases, cold_case_db, 1))
    /\ last_call' = [op |-> "find_enhanced_boston_matches", page |-> 0,
                     status |-> "matches", n |-> Len(matches')]
    /\ UNCHANGED <<boston_cases, cold_case_db, input, output, pc>>

find_enhanced_boston_matches ==
    /\ calls < MaxCalls
    /\ calls' = calls + 1
    /\ matches' = EnhancedMatches(boston_cases, cold_case_db)
    /\ last_call' = [op |-> "find_enhanced_boston_matches", page |-> 0,
                     status |-> "matches", n |-> Len(matches')]
    /\ UNCHANGED <<boston_cases, cold_case_db, input, output, pc>>

scrape_boston_cases == (\E p \in 1..Len(BostonPages) : ScrapeBostonPage(p)) \/ ScrapeBostonError

scrape_cold_case_db == (\E p \in 1..Len(ColdPages) : ScrapeColdPage(p)) \/ ScrapeColdError

Next == scrape_boston_cases \/ scrape_cold_case_db \/ find_enhanced_boston_matches

Spec == Init /\ [][Next]_vars


(***************************************************************************)
(* The scorer on its own: one pair of records is scored and explained      *)
(***************************************************************************)
\* the four fields of a record that the scorer reads
ScoreRecord(victim_name, age, date, location) ==
    [victim_name |-> victim_name, age |-> age, date |-> date, location |-> location]

BostonScoreRecords ==
    {ScoreRecord(n, a, d, l) :
        n \in {<<"J","o","h","n"," ","S","m","i","t","h">>, <<"U","n","k","n","o","w","n">>},
        a \in {NoneInt, 30},
        d \in {None, <<"1","/","5","/","2","0","1","4">>},
        l \in {<<>>, <<"r","o","x","b","u","r","y">>, <<"m","a","t","t","a","p","a","n">>, <<"1","2"," ","d","o","r","c","h","e","s","t","e","r"," ","a","v","e","n","u","e">>, <<"4","5"," ","m","a","i","n"," ","s","t","r","e","e","t">>,
               <<"u","n","k","n","o","w","n"," ","l","o","c","a","t","i","o","n">>}}

ColdScoreRecords ==
    {ScoreRecord(n, a, d, l) :
        n \in {<<"J","o","h","n"," ","S","m","i","t","h">>, <<"U","n","k","n","o","w","n">>, <<"J","o","h","n"," ","D","o","e">>},
        a \in {NoneInt, 0, 30, 32, 35},
        d \in {None, <<"1","/","5","/","2","0","1","4">>, <<"3","/","9","/","2","0","1","3">>, <<"2","0","1","1","-","0","3","-","0","4">>},
        l \in {<<>>, <<"r","o","x","b","u","r","y">>, <<"c","h","a","r","l","e","s","t","o","w","n">>, <<"d","o","r","c","h","e","s","t","e","r">>, <<"1","2"," ","d","o","r","c","h","e","s","t","e","r"," ","a","v","e","n","u","e">>,
                <<"4","5"," ","m","a","i","n"," ","s","t","r","e","e","t">>, <<"u","n","k","n","o","w","n"," ","l","o","c","a","t","i","o","n">>}}

\* Robert Jones, 34, Roxbury, 2014, in several spellings of place and date
RobertJonesRecords ==
    {ScoreRecord(<<"R","o","b","e","r","t"," ","J","o","n","e","s">>, 34, d, l) :
        d \in {<<"M","a","r","c","h"," ","1","2",","," ","2","0","1","4">>, <<"3","/","1","2","/","2","0","1","4">>, <<"2","0","1","4">>},
        l \in {<<"r","o","x","b","u","r","y">>, <<"R","o","x","b","u","r","y">>, <<"1","2"," ","r","o","x","b","u","r","y"," ","s","t","r","e","e","t">>}}

\* Bob Jones, 35, Roxbury, 2014, in several spellings of place and date
BobJonesRecords ==
    {ScoreRecord(<<"B","o","b"," ","J","o","n","e","s">>, 35, d, l) :
        d \in {<<"m","a","r","c","h"," ","1","2",","," ","2","0","1","4">>, <<"2","0","1","4","-","0","3","-","1","2">>, <<"3","/","9","/","2","0","1","4">>},
        l \in {<<"r","o","x","b","u","r","y">>, <<"R","o","x","b","u","r","y">>, <<"1","2"," ","r","o","x","b","u","r","y"," ","s","t","r","e","e","t">>}}

InitScore ==
    /\ InitChecker
    /\ input \in (BostonScoreRecords \X ColdScoreRecords)
                    \cup (RobertJonesRecords \X BobJonesRecords)
    /\ output = <<>>
    /\ pc = "score"

\* _calculate_enhanced_match_score and _get_enhanced_match_reasons of the pair
ScorePair ==
    /\ pc = "score"
    /\ output' = [match_score |-> _calculate_enhanced_match_score(input[1], input[2]),
                  match_reasons |-> _get_enhanced_match_reasons(input[1], input[2])]
    /\ pc' = "scored"
    /\ UNCHANGED <<checker, input>>

SpecScore == InitScore /\ [][ScorePair]_vars

(***************************************************************************)
(* The de-duplicator on its own: a list is de-duplicated, and the result   *)
(* once more                                                               *)
(***************************************************************************)
\* the fields of a record that make its signature, and its case_id
DedupRecord(victim_name, location, date, case_id) ==
    [victim_name |-> victim_name, location |-> location, date |-> date, case_id |-> case_id]

\* two records of one signature, two more of another, and a fifth whose
\* fields differ from the first ones but are joined to the same signature
DedupRecords ==
    << DedupRecord(<<"J","o","h","n"," ","S","m","i","t","h">>, <<"r","o","x","b","u","r","y">>, <<"1","-","5","-","2","0","1","4">>, 1),
       DedupRecord(<<"J","o","h","n"," ","S","m","i","t","h">>, <<"r","o","x","b","u","r","y">>, <<"1","-","5","-","2","0","1","4">>, 2),
       DedupRecord(<<"U","n","k","n","o","w","n">>, <<"m","a","t","t","a","p","a","n">>, None, 3),
       DedupRecord(<<"U","n","k","n","o","w","n">>, <<"m","a","t","t","a","p","a","n">>, None, 4),
       DedupRecord(<<"J","o","h","n"," ","S","m","i","t","h">>, <<"r","o","x","b","u","r","y","-","1">>, <<"5","-","2","0","1","4">>, 5) >>

MaxCases == 3

\* the lists of at most n records
RECURSIVE CaseLists(_)
CaseLists(n) ==
    IF n = 0 THEN {<<>>}
    ELSE CaseLists(n - 1)
            \cup {Append(l, DedupRecords[k]) : l \in CaseLists(n - 1), k \in 1..Len(DedupRecords)}

InitDedup ==
    /\ InitChecker
    /\ input \in CaseLists(MaxCases)
    /\ output = <<>>
    /\ pc = "dedup"

\* unique = self._remove_duplicate_cases(cases)
Dedup ==
    /\ pc = "dedup"
    /\ output' = <<_remove_duplicate_cases(input)>>
    /\ pc' = "deduped"
    /\ UNCHANGED <<checker, input>>

\* self._remove_duplicate_cases(unique)
DedupAgain ==
    /\ pc = "deduped"
    /\ output' = Append(output, _remove_duplicate_cases(output[1]))
    /\ pc' = "deduped twice"
    /\ UNCHANGED <<checker, input>>

NextDedup == Dedup \/ DedupAgain

SpecDedup == InitDedup /\ [][NextDedup]_vars

(***************************************************************************)
(* The age extractor on its own: a text is made of snippets and read       *)
(***************************************************************************)
AgeSnippets ==
    << <<"0">>, <<"2","5","0">>, <<" ","y","e","a","r","s"," ","o","l","d">>, <<"-","y","e","a","r","-","o","l","d">>, <<" ","y","/","o">>, <<"a","g","e"," ">>, <<" ","y","e","a","r","s"," ","o","f"," ","a","g","e">> >>

MaxSnippets == 4

\* the texts of at most n snippets
RECURSIVE SnippetTexts(_)
SnippetTexts(n) ==
    IF n = 0 THEN {<<>>}
    ELSE SnippetTexts(n - 1)
            \cup {t \o AgeSnippets[k] : t \in SnippetTexts(n - 1), k \in 1..Len(AgeSnippets)}

InitAge ==
    /\ InitChecker
    /\ input \in SnippetTexts(MaxSnippets)
    /\ output = <<>>
    /\ pc = "age"

\* age = self._extract_age(text)
ExtractAge ==
    /\ pc = "age"
    /\ output' = _extract_age(input)
    /\ pc' = "age read"
    /\ UNCHANGED <<checker, input>>

SpecAge == InitAge /\ [][ExtractAge]_vars

(***************************************************************************)
(* The block segmenter on its own: a text is made of pieces and segmented  *)
(***************************************************************************)
\* the texts made of at most n of the pieces
RECURSIVE PieceTexts(_, _)
PieceTexts(pieces, n) ==
    IF n = 0 THEN {<<>>}
    ELSE PieceTexts(pieces, n - 1)
            \cup {t \o pieces[k] : t \in PieceTexts(pieces, n - 1), k \in 1..Len(pieces)}

\* a date of 2014, a date of 2014 with a sentence that makes 100 characters
\* with it, a sentence of 88 characters, a short sentence, a date of another
\* year, and white space
BlockPieces ==
    << <<"J","a","n","u","a","r","y"," ","5",","," ","2","0","1","4"," ">>,
       (* "june 12 2014 Officers responded to a radio call for a person shot and found the victim at the scene." *)
            <<"j","u","n","e"," ","1","2"," ","2","0","1","4"," ","O","f","f","i","c","e","r","s",
            " ","r","e","s","p","o","n","d","e","d"," ","t","o"," ","a"," ","r","a","d","i","o",
            " ","c","a","l","l"," ","f","o","r"," ","a"," ","p","e","r","s","o","n"," ","s","h",
            "o","t"," ","a","n","d"," ","f","o","u","n","d"," ","t","h","e"," ","v","i","c","t",
            "i","m"," ","a","t"," ","t","h","e"," ","s","c","e","n","e",".">>,
       (* "Officers responded to a radio call for a person shot and found the victim at the scene. " *)
            <<"O","f","f","i","c","e","r","s"," ","r","e","s","p","o","n","d","e","d"," ","t","o",
            " ","a"," ","r","a","d","i","o"," ","c","a","l","l"," ","f","o","r"," ","a"," ","p",
            "e","r","s","o","n"," ","s","h","o","t"," ","a","n","d"," ","f","o","u","n","d"," ",
            "t","h","e"," ","v","i","c","t","i","m"," ","a","t"," ","t","h","e"," ","s","c","e",
            "n","e","."," ">>,
       <<"I","n","v","e","s","t","i","g","a","t","i","o","n"," ","p","e","n","d","i","n","g","."," ">>, <<"M","a","y"," ","2",","," ","2","0","1","3"," ">>, <<" ", "\n", " ">> >>

MaxPieces == 3

InitBlocks ==
    /\ InitChecker
    /\ input \in PieceTexts(BlockPieces, MaxPieces)
    /\ output = <<>>
    /\ pc = "text"

\* case_blocks = self._split_into_case_blocks(full_text)
SplitBlocks ==
    /\ pc = "text"
    /\ output' = _split_into_case_blocks(input)
    /\ pc' = "blocks"
    /\ UNCHANGED <<checker, input>>

SpecBlocks == InitBlocks /\ [][SplitBlocks]_vars

(***************************************************************************)
(* The name extractor on its own: a text is made of pieces and read        *)
(***************************************************************************)
\* the phrase with the name, a date, another name, the words that lead to the
\* phrase, an earlier 'identified as' phrase, and the start of a sentence
NamePieces ==
    << (* "identified as John Smith, 30" *)
            <<"i","d","e","n","t","i","f","i","e","d"," ","a","s"," ","J","o","h","n"," ","S","m",
            "i","t","h",","," ","3","0">>, <<"J","a","n","u","a","r","y"," ","5",","," ","2","0","1","4"," ">>, <<"M","a","r","y"," ","B","r","o","w","n"," ">>,
       <<"T","h","e"," ","v","i","c","t","i","m"," ","w","a","s"," ","l","a","t","e","r"," ">>, (* "identified as the deceased. " *)
            <<"i","d","e","n","t","i","f","i","e","d"," ","a","s"," ","t","h","e"," ","d","e","c",
            "e","a","s","e","d","."," ">>, <<"."," ","H","e"," ","w","a","s"," ">> >>

InitName ==
    /\ InitChecker
    /\ input \in PieceTexts(NamePieces, MaxPieces)
    /\ output = <<>>
    /\ pc = "text"

\* victim_name = self._extract_victim_name(text)
ExtractName ==
    /\ pc = "text"
    /\ output' = _extract_victim_name(input)
    /\ pc' = "name"
    /\ UNCHANGED <<checker, input>>

SpecName == InitName /\ [][ExtractName]_vars

(***************************************************************************)
(* The record assembler on its own: a block is made of pieces and read     *)
(***************************************************************************)
\* a date, the sentence that identifies the victim, the place of death, an
\* age in words, and a neighborhood
RecordPieces ==
    << <<"J","a","n","u","a","r","y"," ","5",","," ","2","0","1","4"," ">>, (* "The victim was later identified as Maria Lopez, 29, " *)
            <<"T","h","e"," ","v","i","c","t","i","m"," ","w","a","s"," ","l","a","t","e","r"," ",
            "i","d","e","n","t","i","f","i","e","d"," ","a","s"," ","M","a","r","i","a"," ","L",
            "o","p","e","z",","," ","2","9",","," ">>,
       (* "and was pronounced deceased at 45 Main Street, Dorchester." *)
            <<"a","n","d"," ","w","a","s"," ","p","r","o","n","o","u","n","c","e","d"," ","d","e",
            "c","e","a","s","e","d"," ","a","t"," ","4","5"," ","M","a","i","n"," ","S","t","r",
            "e","e","t",","," ","D","o","r","c","h","e","s","t","e","r",".">>,
       <<"S","h","e"," ","w","a","s"," ","2","9"," ","y","e","a","r","s"," ","o","l","d","."," ">>, (* "Officers were called to Mattapan. " *)
            <<"O","f","f","i","c","e","r","s"," ","w","e","r","e"," ","c","a","l","l","e","d"," ",
            "t","o"," ","M","a","t","t","a","p","a","n","."," ">> >>

InitRecord ==
    /\ InitChecker
    /\ input \in PieceTexts(RecordPieces, MaxPieces)
    /\ output = <<>>
    /\ pc = "block"

\* case_info = self._extract_boston_case_info(block)
ExtractRecord ==
    /\ pc = "block"
    /\ output' = _extract_boston_case_info(input)
    /\ pc' = "record"
    /\ UNCHANGED <<checker, input>>

SpecRecord == InitRecord /\ [][ExtractRecord]_vars
(***************************************************************************)
(* The description normalizer of the report generator (boston_2014.py).    *)
(* Every pattern is compiled with re.IGNORECASE unless a comment says      *)
(* otherwise.                                                              *)
(***************************************************************************)
\* (?:Street|St|Avenue|Ave|Road|Rd|Drive|Dr|Lane|Ln|Circle|Way|Place|Pl), and
\* Hill, which only the first group of line 157 has
report_suffixes ==
    << <<"s","t","r","e","e","t">>, <<"s","t">>, <<"a","v","e","n","u","e">>, <<"a","v","e">>, <<"r","o","a","d">>, <<"r","d">>, <<"d","r","i","v","e">>, <<"d","r">>,
       <<"l","a","n","e">>, <<"l","n">>, <<"c","i","r","c","l","e">>, <<"w","a","y">>, <<"p","l","a","c","e">>, <<"p","l">>, <<"h","i","l","l">> >>

\* the offset of the first character of s[p:] that is in the class (when
\* inside) or out of it (when not inside), Len(s) when there is none: where
\* [^.]* and the like stop
Find(s, p, class, inside) ==
    LET hits == {q \in p..(Len(s) - 1) : (s[q + 1] \in class) = inside}
    IN  IF hits = {} THEN Len(s) ELSE Leftmost(hits)

\* [A-Za-z\s]*?(?:Street|St|...) from offset z with the first n suffixes: the
\* lazy class stops at the first offset, at least `least` characters after z,
\* where a suffix starts, and of the suffixes that start there the first of
\* the list is taken; the result is the offset behind that suffix
StreetEnd(s, z, least, n) ==
    LET SuffixAt(p) == {k \in 1..n : LitAt(s, report_suffixes[k], p)}
        Behind(p) == p + Len(report_suffixes[Leftmost(SuffixAt(p))])
        First(hits) == IF hits = {} THEN NoMatch ELSE Behind(Leftmost(hits))
    IN  IF z = NoMatch THEN NoMatch
        ELSE First({p \in (z + least)..Find(s, z, AlphaSet \cup SpaceSet, FALSE) :
                        SuffixAt(p) # {}})

\* lines 143-157: the five re.sub(r'^...', '', description) in the order of the
\* code; each takes the description the one before it left (the value d1 of
\* the first statement, then the value d2 of the second for that d1, ...)
RemovePrefixes(description, victim_name) ==
    LET \* d without the e characters an anchored pattern matched
        Cut(d, e) == IF e = NoMatch THEN d ELSE SubSeq(d, e + 1, Len(d))
        \* [^.]*\.\s* and [^.]*?\.\s* from offset p: up to the first full stop
        \* and over the white space behind it
        FullStop(d, p) ==
            IF p = NoMatch \/ Find(d, p, {"."}, TRUE) = Len(d) THEN NoMatch
            ELSE Spaces0(d, Find(d, p, {"."}, TRUE) + 1)
        \* line 143: neither [^.]*? nor the two optional groups can hold a full
        \* stop, so the pattern matches when the literal starts before the
        \* first full stop of d, and it ends behind that full stop
        Responded(d) ==
            \E q \in 0..Find(d, 0, {"."}, TRUE) :
                LitAt(d, (* "boston police department responded to" *)
            <<"b","o","s","t","o","n"," ","p","o","l","i","c","e"," ","d","e","p","a","r","t","m",
            "e","n","t"," ","r","e","s","p","o","n","d","e","d"," ","t","o">>, q)
        Line143(d) == Cut(d, IF Responded(d) THEN FullStop(d, 0) ELSE NoMatch)
        \* lines 146-148
        Line148(d) ==
            IF Truthy(victim_name) /\ victim_name # <<"U","n","k","n","o","w","n"," ","V","i","c","t","i","m">>
                    /\ LitAt(d, Lower(victim_name), 0)
            THEN Cut(d, FullStop(d, Len(victim_name)))
            ELSE d
        \* line 151: \d+\s+[A-Za-z\s]+? is the digits, one white space and at
        \* least one more character of the class
        Digits(d) == RunLen(d, 0, DigitSet)
        Line151(d) ==
            Cut(d, FullStop(d, IF Digits(d) >= 1 /\ Spaces1(d, Digits(d)) # NoMatch
                                THEN StreetEnd(d, Digits(d), 2, 14)
                                ELSE NoMatch))
        \* line 154: \d{1,2} takes two digits, and one when the rest fails
        Year(d, p) == Lit(d, <<"2","0","1","4">>, Spaces0(d, OptLit(d, <<",">>, p)))
        Day(d, p) ==
            IF p = NoMatch THEN NoMatch
            ELSE OrElse(IF RunLen(d, p, DigitSet) >= 2 THEN Year(d, p + 2) ELSE NoMatch,
                        IF RunLen(d, p, DigitSet) >= 1 THEN Year(d, p + 1) ELSE NoMatch)
        On(d) == OrElse(Spaces1(d, Lit(d, <<"o","n">>, 0)), 0)
        Line154(d) == Cut(d, FullStop(d, Day(d, Spaces1(d, Month(d, On(d))))))
        \* line 157, \d*\s*[A-Za-z\s]*?(?:Street|...|Hill) from offset z
        StreetName(d, z) ==
            IF z = NoMatch THEN NoMatch ELSE StreetEnd(d, z + RunLen(d, z, DigitSet), 0, 15)
        \* line 157, (?:AKA\s+[^.]*?\s+)? and the street name behind it: the
        \* lazy [^.]*? ends at the first white space y from where the street
        \* name matches; when there is none, AKA\s+ gives one blank back
        AkaFrom(d, r, ys) ==
            IF ys # {} THEN StreetName(d, Spaces1(d, Leftmost(ys)))
            ELSE IF r >= 5 THEN StreetName(d, r)
            ELSE NoMatch
        AkaAt(d, r) ==
            AkaFrom(d, r, {y \in r..Find(d, r, {"."}, TRUE) :
                                StreetName(d, Spaces1(d, y)) # NoMatch})
        Aka(d) ==
            IF LitAt(d, <<"a","k","a">>, 0) /\ RunLen(d, 3, SpaceSet) >= 1
            THEN AkaAt(d, 3 + RunLen(d, 3, SpaceSet))
            ELSE NoMatch
        \* line 157, \s*(?:&\s*[A-Za-z\s]*?(?:Street|...|Pl))?\s* from offset a
        \* behind the white space
        AndName(d, a) ==
            IF a < Len(d) /\ d[a + 1] = "&" /\ StreetEnd(d, a + 1, 0, 14) # NoMatch
            THEN Spaces0(d, StreetEnd(d, a + 1, 0, 14))
            ELSE a
        Line157b(d, e) == IF e = NoMatch THEN d ELSE Cut(d, AndName(d, Spaces0(d, e)))
        Line157a(d) == Line157b(d, OrElse(Aka(d), StreetName(d, 0)))
    IN  CHOOSE d5 \in {Line157a(d4) : d4 \in {Line154(d3) : d3 \in {Line151(d2) :
            d2 \in {Line148(d1) : d1 \in {Line143(description)}}}}} : TRUE

\* lines 160-165, the pattern of line k from offset j: the offset where its
\* match ends and the text that replaces the match
Sentence(d, j, k) ==
    LET a == Lit(d, (* "the victim was later identified as " *)
            <<"t","h","e"," ","v","i","c","t","i","m"," ","w","a","s"," ","l","a","t","e","r"," ",
            "i","d","e","n","t","i","f","i","e","d"," ","a","s"," ">>, j)
        \* [^,]+ up to the first comma, ,\s* and \d+
        n == Find(d, a, {","}, TRUE) - a
        num == Spaces0(d, a + n + 1)
        digits == RunLen(d, num, DigitSet)
        aged == a # NoMatch /\ n >= 1 /\ a + n < Len(d) /\ digits >= 1
        Deceased(p) ==
            Spaces0(d, OptLit(d, <<".">>, Lit(d, (* "and was pronounced deceased" *)
            <<"a","n","d"," ","w","a","s"," ","p","r","o","n","o","u","n","c","e","d"," ","d","e",
            "c","e","a","s","e","d">>, p)))
        Last(hits) == CHOOSE h \in hits : \A g \in hits : g <= h
        \* line 161: the greedy [^,]+ gives characters back until ,?\s*and
        \* was pronounced deceased matches
        back == {q \in (a + 1)..(a + n) : Deceased(Spaces0(d, q)) # NoMatch}
        \* line 165: the greedy [^.]+ gives characters back likewise
        m == Lit(d, <<"t","h","e"," ","m","a","n","n","e","r"," ","o","f"," ","d","e","a","t","h"," ","o","f"," ">>, j)
        Examiner(p) ==
            Spaces0(d, OptLit(d, <<".">>,
                Lit(d, (* "homicide by the office of the chief medical examiner" *)
            <<"h","o","m","i","c","i","d","e"," ","b","y"," ","t","h","e"," ","o","f","f","i","c",
            "e"," ","o","f"," ","t","h","e"," ","c","h","i","e","f"," ","m","e","d","i","c","a",
            "l"," ","e","x","a","m","i","n","e","r">>,
                    OptLit(d, <<"a"," ">>, Lit(d, <<" ","w","a","s"," ","d","e","t","e","r","m","i","n","e","d"," ","t","o"," ","b","e"," ">>, p)))))
        tries == {q \in (m + 1)..Find(d, m, {"."}, TRUE) : Examiner(q) # NoMatch}
        end ==
            CASE k = 160 -> IF aged THEN Deceased(Spaces0(d, OptLit(d, <<",">>, num + digits)))
                            ELSE NoMatch
              [] k = 161 -> IF a = NoMatch \/ n = 0 THEN NoMatch
                            ELSE IF a + n < Len(d) /\ Deceased(num) # NoMatch THEN Deceased(num)
                            ELSE IF back # {} THEN Deceased(Spaces0(d, Last(back)))
                            ELSE NoMatch
              [] k = 162 -> IF aged THEN Spaces0(d, OptLit(d, <<".">>, num + digits))
                            ELSE NoMatch
              [] k = 165 -> IF m = NoMatch \/ tries = {} THEN NoMatch
                            ELSE Examiner(Last(tries))
        text ==
            CASE k = 160 -> <<"T","h","e"," ">> \o Slice(d, num, num + digits)
                                \o (* "-year-old was pronounced deceased. " *)
            <<"-","y","e","a","r","-","o","l","d"," ","w","a","s"," ","p","r","o","n","o","u","n",
            "c","e","d"," ","d","e","c","e","a","s","e","d","."," ">>
              [] k = 161 -> (* "The victim was pronounced deceased. " *)
            <<"T","h","e"," ","v","i","c","t","i","m"," ","w","a","s"," ","p","r","o","n","o","u",
            "n","c","e","d"," ","d","e","c","e","a","s","e","d","."," ">>
              [] k = 162 -> <<>>
              [] k = 165 -> (* "The death was ruled a homicide. " *)
            <<"T","h","e"," ","d","e","a","t","h"," ","w","a","s"," ","r","u","l","e","d"," ","a",
            " ","h","o","m","i","c","i","d","e","."," ">>
    IN  IF end = NoMatch THEN <<NoMatch, <<>>>> ELSE <<end, text>>

\* lines 160-165, re.sub(pattern, replacement, description): the matches of
\* the pattern of line k from offset i on, left to right, each replaced
RECURSIVE SubFrom(_, _, _)
SubFrom(d, i, k) ==
    LET Rest(m, j) ==
            IF j = NoMatch THEN Slice(d, i, Len(d))
            ELSE Slice(d, i, j) \o m[2] \o SubFrom(d, m[1], k)
        At(j) == Rest(IF j = NoMatch THEN <<>> ELSE Sentence(d, j, k), j)
    IN  At(Leftmost({j \in i..(Len(d) - 1) : Sentence(d, j, k)[1] # NoMatch}))

\* lines 168-176: the four redundant phrases at the start, one after the other
RedundantPhrases(description) ==
    LET Sub(d, e, r) == IF e = NoMatch THEN d ELSE r \o SubSeq(d, e + 1, Len(d))
        The(d) == OrElse(Spaces1(d, Lit(d, <<"t","h","e">>, 0)), 0)
        Article(d, p) == OrElse(Spaces1(d, Lit(d, <<"a">>, p)), Spaces1(d, Lit(d, <<"a","n">>, p)))
        \* [\s-]
        Dash(d, p) ==
            IF p # NoMatch /\ p < Len(d) /\ d[p + 1] \in SpaceSet \cup {"-"} THEN p + 1
            ELSE NoMatch
        Sex(d, p) ==
            OrElse(Lit(d, <<"m","a","n">>, p), OrElse(Lit(d, <<"w","o","m","a","n">>, p),
                OrElse(Lit(d, <<"m","a","l","e">>, p), Lit(d, <<"f","e","m","a","l","e">>, p))))
        YearOld(d, p) ==
            Spaces1(d, Sex(d, Spaces1(d, Lit(d, <<"o","l","d">>, Dash(d, Lit(d, <<"y","e","a","r">>, Dash(d, p)))))))
        Aged(d, a, n) ==
            IF a = NoMatch \/ n = 0 THEN d
            ELSE Sub(d, YearOld(d, a + n), <<"A"," ">> \o Slice(d, a, a + n) \o <<"-","y","e","a","r","-","o","l","d"," ">>)
        AgedAt(d, a) == Aged(d, a, IF a = NoMatch THEN 0 ELSE RunLen(d, a, DigitSet))
        Found(d) ==
            Spaces1(d, OrElse(Lit(d, <<"f","o","u","n","d">>, Spaces1(d, OrElse(Lit(d, <<"p","o","l","i","c","e">>, 0), Lit(d, <<"o","f","f","i","c","e","r","s">>, 0)))),
                              Lit(d, <<"d","i","s","c","o","v","e","r","e","d">>, Spaces1(d, OrElse(Lit(d, <<"p","o","l","i","c","e">>, 0), Lit(d, <<"o","f","f","i","c","e","r","s">>, 0))))))
        Body(d, p) == Spaces1(d, Lit(d, <<"o","f">>, Spaces1(d, Lit(d, <<"b","o","d","y">>, p))))
        FoundBody(d, p) == OrElse(Body(d, Spaces1(d, Lit(d, <<"t","h","e">>, p))), p)
        Line169(d) == Sub(d, Spaces1(d, Lit(d, <<"v","i","c","t","i","m">>, The(d))), <<>>)
        Line170(d) == AgedAt(d, Article(d, 0))
        Line171(d) == Sub(d, FoundBody(d, Found(d)), <<"P","o","l","i","c","e"," ","f","o","u","n","d"," ">>)
        Line172(d) == Sub(d, Article(d, Body(d, The(d))), <<"T","h","e"," ","b","o","d","y"," ","o","f"," ","a"," ">>)
    IN  CHOOSE d4 \in {Line172(d3) : d3 \in {Line171(d2) : d2 \in {Line170(d1) :
            d1 \in {Line169(description)}}}} : TRUE

\* lines 179-187: white space (r'\s+' and r'^[,\.\-\s]+' are compiled without
\* flags), leading punctuation, and the capital at the start
Format(description) ==
    LET Lead(d) == SubSeq(d, RunLen(d, 0, SpaceSet \cup {",", ".", "-"}) + 1, Len(d))
        Upper(c) == UpperChars[CHOOSE i \in 1..26 : LowerChars[i] = c]
        Capital(d) ==
            IF d # <<>> /\ d[1] \in AlphaSet \ UpperSet THEN <<Upper(d[1])>> \o Tail(d)
            ELSE d
    IN  CHOOSE d3 \in {Capital(d2) : d2 \in {Lead(d1) :
            d1 \in {Strip(CollapseSpaces(description))}}} : TRUE

\* lines 190-221: a description of fewer than 50 characters is rebuilt from
\* the age, the circumstances and the time found in the original text
ShortDescription(description, original_description) ==
    LET o == original_description
        low == Lower(original_description)
        Dash(p) ==
            IF p # NoMatch /\ p < Len(o) /\ o[p + 1] \in SpaceSet \cup {"-"} THEN p + 1
            ELSE NoMatch
        \* line 195, (\d+)[\s-]year[\s-]old from offset j
        AgeEnd(j) ==
            IF RunLen(o, j, DigitSet) = 0 THEN NoMatch
            ELSE Lit(o, <<"o","l","d">>, Dash(Lit(o, <<"y","e","a","r">>, Dash(j + RunLen(o, j, DigitSet)))))
        age_match == Leftmost({j \in 0..(Len(o) - 1) : AgeEnd(j) # NoMatch})
        age ==
            IF age_match = NoMatch THEN <<>>
            ELSE <<Slice(o, age_match, age_match + RunLen(o, age_match, DigitSet))
                        \o <<" ","y","e","a","r","s"," ","o","l","d">>>>
        \* lines 201-206; the . of found.*body matches no line feed
        circumstances ==
            (IF Contains(<<"s","h","o","t">>, low) THEN <<<<"s","h","o","t">>>> ELSE <<>>)
            \o (IF Contains(<<"s","t","a","b","b","e","d">>, low) THEN <<<<"s","t","a","b","b","e","d">>>> ELSE <<>>)
            \o (IF \E i \in 0..(Len(o) - 5) :
                        /\ StartsAt(low, <<"f","o","u","n","d">>, i)
                        /\ \E b \in (i + 5)..Find(o, i + 5, {"\n"}, TRUE) :
                                StartsAt(low, <<"b","o","d","y">>, b)
                THEN <<<<"b","o","d","y"," ","d","i","s","c","o","v","e","r","e","d">>>> ELSE <<>>)
        \* line 209, [ap]m
        Meridiem(p) == OrElse(Lit(o, <<"a","m">>, p), Lit(o, <<"p","m">>, p))
        \* line 209, \d{1,2}:\d{2}(?:\s*[ap]m)? with k digits before the colon
        Clock(t, k) ==
            IF RunLen(o, t, DigitSet) >= k /\ LitAt(o, <<":">>, t + k)
                    /\ RunLen(o, t + k + 1, DigitSet) >= 2
            THEN OrElse(Meridiem(Spaces0(o, t + k + 3)), t + k + 3)
            ELSE NoMatch
        \* line 209, \d{1,2}\s*[ap]m with k digits
        Hour(t, k) ==
            IF RunLen(o, t, DigitSet) >= k THEN Meridiem(Spaces0(o, t + k)) ELSE NoMatch
        \* line 209, the group from offset t: the first alternative before the
        \* second, two digits before one
        TimeEnd(t) ==
            IF t = NoMatch THEN NoMatch
            ELSE OrElse(Clock(t, 2), OrElse(Clock(t, 1), OrElse(Hour(t, 2), Hour(t, 1))))
        \* line 209, the start of the group when the pattern is tried at j:
        \* each optional group is tried with its words first, then without
        At(j) == Spaces1(o, Lit(o, <<"a","t">>, j))
        Approximately(p) == Spaces1(o, Lit(o, <<"a","p","p","r","o","x","i","m","a","t","e","l","y">>, p))
        GroupAt(j) ==
            IF TimeEnd(Approximately(At(j))) # NoMatch THEN Approximately(At(j))
            ELSE IF TimeEnd(At(j)) # NoMatch THEN At(j)
            ELSE IF TimeEnd(Approximately(j)) # NoMatch THEN Approximately(j)
            ELSE IF TimeEnd(j) # NoMatch THEN j
            ELSE NoMatch
        time_match == Leftmost({j \in 0..(Len(o) - 1) : GroupAt(j) # NoMatch})
        time ==
            IF time_match = NoMatch THEN <<>>
            ELSE <<<<"a","t"," ">> \o Slice(o, GroupAt(time_match), TimeEnd(GroupAt(time_match)))>>
        \* ' and '.join(circumstances), ', '.join(details)
        Join(parts, sep) ==
            IF Len(parts) = 1 THEN parts[1]
            ELSE IF Len(parts) = 2 THEN parts[1] \o sep \o parts[2]
            ELSE parts[1] \o sep \o parts[2] \o sep \o parts[3]
        Details(details) ==
            IF details = <<>> THEN <<>> ELSE <<" ","(">> \o Join(details, <<","," ">>) \o <<")">>
    IN  IF Len(description) >= 50 THEN description
        ELSE IF circumstances # <<>>
        THEN <<"V","i","c","t","i","m"," ","w","a","s"," ">> \o Join(circumstances, <<" ","a","n","d"," ">>)
                \o Details(age \o time) \o (* ". The death was ruled a homicide." *)
            <<"."," ","T","h","e"," ","d","e","a","t","h"," ","w","a","s"," ","r","u","l","e","d",
            " ","a"," ","h","o","m","i","c","i","d","e",".">>
        ELSE IF Len(description) < 20 THEN (* "Victim of homicide. Investigation ongoing." *)
            <<"V","i","c","t","i","m"," ","o","f"," ","h","o","m","i","c","i","d","e","."," ","I",
            "n","v","e","s","t","i","g","a","t","i","o","n"," ","o","n","g","o","i","n","g",".">>
        ELSE description

\* cleanup_description(self, description, date, victim_name=None, location=None):
\* the statements in the order of the code, d1 the description after the
\* first, d2 after the second for that d1, and so on
cleanup_description(description, date, victim_name, location) ==
    IF description = <<>> THEN <<>>
    ELSE CHOOSE d8 \in {ShortDescription(d7, description) : d7 \in {Format(d6) :
            d6 \in {RedundantPhrases(d5) : d5 \in {SubFrom(d4, 0, 165) :
            d4 \in {SubFrom(d3, 0, 162) : d3 \in {SubFrom(d2, 0, 161) :
            d2 \in {SubFrom(d1, 0, 160) :
            d1 \in {RemovePrefixes(description, victim_name)}}}}}}}} : TRUE

(***************************************************************************)
(* The normalizer on its own: a block of the page is made of pieces,       *)
(* normalized when it is scraped and once more when the report is written  *)
(***************************************************************************)
\* a name, an address and the sentence of the response; the sentence that
\* identifies the victim; a shooting with a time; a word; a long sentence; an
\* age
CleanPieces ==
    << (* "John Smith 12 Main Street On January 5, 2014, Boston Police Department responded to a call. " *)
            <<"J","o","h","n"," ","S","m","i","t","h"," ","1","2"," ","M","a","i","n"," ","S","t",
            "r","e","e","t"," ","O","n"," ","J","a","n","u","a","r","y"," ","5",","," ","2","0",
            "1","4",","," ","B","o","s","t","o","n"," ","P","o","l","i","c","e"," ","D","e","p",
            "a","r","t","m","e","n","t"," ","r","e","s","p","o","n","d","e","d"," ","t","o"," ",
            "a"," ","c","a","l","l","."," ">>,
       (* "The victim was later identified as John Smith, 30, and was pronounced deceased. " *)
            <<"T","h","e"," ","v","i","c","t","i","m"," ","w","a","s"," ","l","a","t","e","r"," ",
            "i","d","e","n","t","i","f","i","e","d"," ","a","s"," ","J","o","h","n"," ","S","m",
            "i","t","h",","," ","3","0",","," ","a","n","d"," ","w","a","s"," ","p","r","o","n",
            "o","u","n","c","e","d"," ","d","e","c","e","a","s","e","d","."," ">>,
       <<"H","e"," ","w","a","s"," ","s","h","o","t"," ","a","t"," ","5"," ","p","m","."," ">>, <<"U","n","k","n","o","w","n","."," ">>,
       (* "Detectives are asking anyone with information to contact them. " *)
            <<"D","e","t","e","c","t","i","v","e","s"," ","a","r","e"," ","a","s","k","i","n","g",
            " ","a","n","y","o","n","e"," ","w","i","t","h"," ","i","n","f","o","r","m","a","t",
            "i","o","n"," ","t","o"," ","c","o","n","t","a","c","t"," ","t","h","e","m","."," ">>,
       (* "The victim was a 30-year-old man. " *)
            <<"T","h","e"," ","v","i","c","t","i","m"," ","w","a","s"," ","a"," ","3","0","-","y",
            "e","a","r","-","o","l","d"," ","m","a","n","."," ">> >>

InitClean ==
    /\ InitChecker
    /\ input \in [description : PieceTexts(CleanPieces, MaxPieces),
                  victim_name : {None, <<"J","o","h","n"," ","S","m","i","t","h">>, <<"U","n","k","n","o","w","n"," ","V","i","c","t","i","m">>}]
    /\ output = <<>>
    /\ pc = "block"

\* scrape_boston_cases, line 270: the description stored with the case
StoreDescription ==
    /\ pc = "block"
    /\ output' = <<cleanup_description(input.description, <<"J","a","n","u","a","r","y"," ","5",","," ","2","0","1","4">>,
                                       input.victim_name, <<"B","o","s","t","o","n">>)>>
    /\ pc' = "stored"
    /\ UNCHANGED <<checker, input>>

\* generate_html_report, lines 679 and 698: the stored description is
\* normalized again for the report
ReportDescription ==
    /\ pc = "stored"
    /\ output' = Append(output, cleanup_description(output[1], <<"J","a","n","u","a","r","y"," ","5",","," ","2","0","1","4">>,
                                                    input.victim_name, <<"B","o","s","t","o","n">>))
    /\ pc' = "reported"
    /\ UNCHANGED <<checker, input>>

SpecClean == InitClean /\ [][StoreDescription \/ ReportDescription]_vars
(***************************************************************************)
(* The tool check_boston_cases_in_cold_case_db: one run, in a world where  *)
(* each site either answers with one of its pages or cannot be reached     *)
(***************************************************************************)
\* what requests.get does for a site with n pages: it returns the answer with
\* page p, or raises (page 0, with the exception raised)
Answers(n) ==
    [page : 1..n, error : {""}] \cup [page : {0}, error : {"ConnectionError", "Timeout"}]

InitTool ==
    /\ InitChecker
    /\ input \in [boston : Answers(Len(BostonPages)), cold : Answers(Len(ColdPages))]
    /\ output = <<>>
    /\ pc = "tool"

\* a tool that goes on to step 2 whatever step 1 found
Step1AlwaysContinues ==
    /\ pc = "tool"
    /\ calls' = calls + 1
    /\ boston_cases' =
            IF input.boston.page = 0 THEN boston_cases
            ELSE _remove_duplicate_cases(boston_cases \o BostonPageCases[input.boston.page])
    /\ last_call' =
            [op |-> "scrape_boston_cases", page |-> input.boston.page,
             status |-> IF input.boston.page = 0 THEN "Error"
                        ELSE IF boston_cases' = <<>> THEN "Warning" ELSE "Found",
             n |-> Len(boston_cases')]
    /\ output' =
            <<[line |-> "STEP 1", status |-> last_call'.status,
               error |-> input.boston.error, n |-> last_call'.n]>>
    /\ pc' = "step 2"
    /\ UNCHANGED <<cold_case_db, matches, input>>

\* lines 584-597: the fresh checker, step 1 of the report, and the return
\* when no Boston case was found
Step1 ==
    /\ pc = "tool"
    /\ calls' = calls + 1
    /\ boston_cases' =
            IF input.boston.page = 0 THEN boston_cases
            ELSE _remove_duplicate_cases(boston_cases \o BostonPageCases[input.boston.page])
    /\ last_call' =
            [op |-> "scrape_boston_cases", page |-> input.boston.page,
             status |-> IF input.boston.page = 0 THEN "Error"
                        ELSE IF boston_cases' = <<>> THEN "Warning" ELSE "Found",
             n |-> Len(boston_cases')]
    /\ output' =
            <<[line |-> "STEP 1", status |-> last_call'.status,
               error |-> input.boston.error, n |-> last_call'.n]>>
            \o (IF boston_cases' = <<>>
                THEN <<[line |-> "CRITICAL ERROR", status |-> "", error |-> "", n |-> 0]>>
                ELSE <<>>)
    /\ pc' = IF boston_cases' = <<>> THEN "returned" ELSE "step 2"
    /\ UNCHANGED <<cold_case_db, matches, input>>

\* lines 600-602: step 2 of the report
Step2 ==
    /\ pc = "step 2"
    /\ calls' = calls + 1
    /\ cold_case_db' =
            IF input.cold.page = 0 THEN cold_case_db
            ELSE cold_case_db \o ColdPageCases[input.cold.page]
    /\ last_call' =
            [op |-> "scrape_cold_case_db", page |-> input.cold.page,
             status |-> IF input.cold.page = 0 THEN "Error"
                        ELSE IF cold_case_db' = <<>> THEN "Warning" ELSE "Found",
             n |-> Len(cold_case_db')]
    /\ output' =
            Append(output, [line |-> "STEP 2", status |-> last_call'.status,
                            error |-> input.cold.error, n |-> last_call'.n])
    /\ pc' = "step 3"
    /\ UNCHANGED <<boston_cases, matches, input>>

\* lines 605-666: step 3 of the report, the numbers of the summary, and the
\* return
Step3 ==
    /\ pc = "step 3"
    /\ calls' = calls + 1
    /\ matches' = EnhancedMatches(boston_cases, cold_case_db)
    /\ last_call' = [op |-> "find_enhanced_boston_matches", page |-> 0,
                     status |-> "matches", n |-> Len(matches')]
    /\ output' =
            output \o
            <<[line |-> "STEP 3", status |-> "", error |-> "", n |-> Len(matches')],
              [line |-> "Boston 2014 cases analyzed", status |-> "", error |-> "",
               n |-> Len(boston_cases)],
              [line |-> "Cold case database entries found", status |-> "", error |-> "",
               n |-> Len(cold_case_db)],
              [line |-> "Potential matches identified", status |-> "", error |-> "",
               n |-> Len(matches')]>>
    /\ pc' = "returned"
    /\ UNCHANGED <<boston_cases, cold_case_db, input>>

check_boston_cases_in_cold_case_db == Step1 \/ Step2 \/ Step3

SpecTool == InitTool /\ [][check_boston_cases_in_cold_case_db]_vars

(***************************************************************************)
(* The gender extractor on its own: a text is made of pieces and read      *)
(***************************************************************************)
\* two nouns, two pronouns, a noun that holds an indicator of the other
\* list, and a word that is no indicator
GenderPieces ==
    << <<"b","o","y"," ">>, <<"g","i","r","l"," ">>, <<"H","e"," ">>, <<"h","e","r"," ">>, <<"w","o","m","a","n"," ">>, <<"v","i","c","t","i","m"," ">> >>

InitGender ==
    /\ InitChecker
    /\ input \in PieceTexts(GenderPieces, MaxPieces)
    /\ output = <<>>
    /\ pc = "text"

\* 'gender': self._extract_gender(text)
ExtractGender ==
    /\ pc = "text"
    /\ output' = _extract_gender(input)
    /\ pc' = "gender"
    /\ UNCHANGED <<checker, input>>

SpecGender == InitGender /\ [][ExtractGender]_vars

(***************************************************************************)
(* The report generator (src/boston_2014.py): its scrape pipeline          *)
(***************************************************************************)
\* parse_date: the date string in the form '%B %d, %Y', None when it is empty
\* or when datetime.strptime(date_str, '%B %d %Y') raises.  strptime reads a
\* month name in any case, \s+, a day of one or two digits (01-31, not 0 or
\* 00), \s+ and a year of four digits up to the end of the string, and the
\* day has to exist in that month
parse_date(date_str) ==
    LET With2014(s) == IF Contains(<<"2","0","1","4">>, s) THEN s ELSE s \o <<" ","2","0","1","4">>
        NoComma(c) == c # ","
        Capital(name) == <<UpperChars[CHOOSE i \in 1..26 : LowerChars[i] = name[1]]>> \o Tail(name)
        TwoDigits(n) == IF n < 10 THEN <<"0">> \o IntStr(n) ELSE IntStr(n)
        Leap(y) == (y % 4 = 0 /\ y % 100 # 0) \/ y % 400 = 0
        DaysIn(m, y) == IF m = 2 THEN (IF Leap(y) THEN 29 ELSE 28)
                        ELSE IF m \in {4, 6, 9, 11} THEN 30 ELSE 31
        DayOk(d) == Len(d) \in {1, 2} /\ ParseInt(d) \in 1..31
        Formatted(m, d, y) ==
            IF d > DaysIn(m, y) \/ y < 1 THEN None
            ELSE Capital(months[m]) \o <<" ">> \o TwoDigits(d) \o <<","," ">> \o IntStr(y)
        \* the match of the format from the end e of the month name on
        Strptime(s, m, e, day, year) ==
            IF e = NoMatch \/ day = NoMatch \/ year = NoMatch THEN None
            ELSE IF ~DayOk(Slice(s, Spaces1(s, e), day)) THEN None
            ELSE IF RunLen(s, year, DigitSet) < 4 \/ year + 4 # Len(s) THEN None
            ELSE Formatted(m, ParseInt(Slice(s, Spaces1(s, e), day)), ParseInt(Slice(s, year, year + 4)))
        After(s, m, e, b) == Strptime(s, m, e, b, Spaces1(s, b))
        From(s, m, e) ==
            After(s, m, e, IF Spaces1(s, e) = NoMatch \/ RunLen(s, Spaces1(s, e), DigitSet) = 0 THEN NoMatch
                           ELSE Spaces1(s, e) + RunLen(s, Spaces1(s, e), DigitSet))
        Parse(s) ==
            IF \A m \in 1..12 : ~LitAt(s, months[m], 0) THEN None
            ELSE LET m == CHOOSE m \in 1..12 : LitAt(s, months[m], 0)
                 IN  From(s, m, Len(months[m]))
    IN  IF date_str = None \/ date_str = <<>> THEN None
        ELSE Parse(SelectSeq(CollapseSpaces(With2014(Strip(date_str))), NoComma))

\* str.title() of a name made of letters, whitespace, ' and -
Title(s) ==
    [i \in 1..Len(s) |->
        IF s[i] \notin AlphaSet THEN s[i]
        ELSE IF i > 1 /\ s[i - 1] \in AlphaSet THEN LowerChar(s[i])
        ELSE IF s[i] \in UpperSet THEN s[i]
        ELSE UpperChars[CHOOSE k \in 1..26 : LowerChars[k] = s[i]]]

\* the span of group 1 of the leftmost match of the k-th pattern of
\* extract_name, for the patterns that are searched in the whole text:
\*   k = 1  (?:victim\s+was\s+)?(?:later\s+)?identified\s+as\s+([A-Za-z\s'-]+?)
\*          (?:\s*,\s*\d+|\s*,\s*age|\s*,\s*and|\s*\.|$)
\*   k = 3  (?:the\s+)?body\s+of\s+([A-Za-z\s'-]+?)(?:\s*,|\s+was|\s+had|\s*\.|$)
\*   k = 4  victim\s+([A-Za-z\s'-]+?)(?:\s*,|\s+was|\s+had|\s+died|\s+suffered|\s*\.|$)
\* The optional words in front move the start of a match, never its group.
\* The greedy \s+ in front of the group gives whitespace back only when the
\* group cannot start behind it, and the lazy group ends at the first offset
\* where the rest of the pattern matches.
NameGroup(s, k) ==
    LET name_class == AlphaSet \cup SpaceSet \cup {"'", "-"}
        \* the offset behind the words in front of the group, without the last \s+
        Words(i) ==
            CASE k = 1 -> Lit(s, <<"a","s">>, Spaces1(s, Lit(s, <<"i","d","e","n","t","i","f","i","e","d">>, i)))
              [] k = 3 -> Lit(s, <<"o","f">>, Spaces1(s, Lit(s, <<"b","o","d","y">>, i)))
              [] OTHER -> Lit(s, <<"v","i","c","t","i","m">>, i)
        AtEnd(e) == e = Len(s) \/ (e = Len(s) - 1 /\ s[Len(s)] = "\n")
        Is(q, c) == q < Len(s) /\ s[q + 1] = c
        AfterComma(q) ==
            \/ k # 1
            \/ q < Len(s) /\ s[q + 1] \in DigitSet
            \/ LitAt(s, <<"a","g","e">>, q)
            \/ LitAt(s, <<"a","n","d">>, q)
        Verb(q) ==
            \/ k \in {3, 4} /\ (LitAt(s, <<"w","a","s">>, q) \/ LitAt(s, <<"h","a","d">>, q))
            \/ k = 4 /\ (LitAt(s, <<"d","i","e","d">>, q) \/ LitAt(s, <<"s","u","f","f","e","r","e","d">>, q))
        \* the rest of the pattern at offset e, where the whitespace from e on ends at q
        Rest(e, q) ==
            \/ Is(q, ",") /\ AfterComma(Spaces0(s, q + 1))
            \/ Is(q, ".")
            \/ q > e /\ Verb(q)
            \/ AtEnd(e)
        Ends(from, to) == {e \in (from + 1)..to : Rest(e, Spaces0(s, e))}
        \* the group that starts at offset g, the class running up to offset c
        Group(g, c) == IF Ends(g, c) = {} THEN <<NoMatch, NoMatch>> ELSE <<g, Leftmost(Ends(g, c))>>
        \* the groups for the whitespace from w0 up to w1: the last start that has an end
        Backtrack(w0, w1, c) ==
            LET starts == {g \in (w0 + 1)..w1 : Ends(g, c) # {}}
            IN  IF starts = {} THEN <<NoMatch, NoMatch>>
                ELSE Group(CHOOSE g \in starts : \A h \in starts : h <= g, c)
        Try(w0) ==
            IF w0 = NoMatch \/ Spaces1(s, w0) = NoMatch THEN <<NoMatch, NoMatch>>
            ELSE Backtrack(w0, Spaces1(s, w0), Find(s, w0, name_class, FALSE))
    IN  LeftmostSpan({<<i, Try(Words(i))>> : i \in 0..(Len(s) - 1)})

\* extract_name: the victim's name of a description, 'Unknown Victim' when no
\* pattern gives one.  Each pattern is searched once; a match whose name is
\* refused sends on to the next pattern
extract_name(text) ==
    LET name_class == AlphaSet \cup SpaceSet \cup {"'", "-"}
        HasWord(name, words) == \E w \in 1..Len(words) : Contains(words[w], Lower(name))
        \* re.sub(r'\s+(?:aka|also\s+known\s+as)\s+.*$', '', name): the name up
        \* to the first whitespace in front of an alias that runs to the end
        AliasAt(n, i) ==
            LET a == Spaces1(n, OrElse(Lit(n, <<"a","k","a">>, Spaces1(n, i)),
                         Lit(n, <<"a","s">>, Spaces1(n, Lit(n, <<"k","n","o","w","n">>, Spaces1(n, Lit(n, <<"a","l","s","o">>, Spaces1(n, i))))))))
            IN  a # NoMatch /\ \A j \in (a + 1)..Len(n) : n[j] # "\n"
        NoAlias(n) ==
            LET hits == {i \in 0..(Len(n) - 1) : AliasAt(n, i)}
            IN  IF hits = {} THEN n ELSE Slice(n, 0, Leftmost(hits))
        \* re.sub(r'^(?:the\s+body\s+of\s+|victim\s+)', '', name)
        NoPrefix(n) ==
            LET e == OrElse(Spaces1(n, Lit(n, <<"o","f">>, Spaces1(n, Lit(n, <<"b","o","d","y">>, Spaces1(n, Lit(n, <<"t","h","e">>, 0)))))),
                            Spaces1(n, Lit(n, <<"v","i","c","t","i","m">>, 0)))
            IN  IF e = NoMatch THEN n ELSE Slice(n, e, Len(n))
        \* case-sensitive literals
        Exact(s, lit, p) == IF p # NoMatch /\ StartsAt(s, lit, p) THEN p + Len(lit) ELSE NoMatch
        AnyExact(s, lits, p) == p # NoMatch /\ \E w \in 1..Len(lits) : StartsAt(s, lits[w], p)
        \* [A-Z][a-z]+ from offset p: where the word ends
        CapitalWord(s, p) ==
            IF p = NoMatch \/ p >= Len(s) \/ s[p + 1] \notin UpperSet \/ RunLen(s, p + 1, LowerSet) = 0 THEN NoMatch
            ELSE p + 1 + RunLen(s, p + 1, LowerSet)
        \* \d+\s+[A-Za-z\s]+?(?:Street|St|...|Pl) from offset p, the digits ending at a
        Address(s, a) ==
            /\ a < Len(s) /\ s[a + 1] \in SpaceSet
            /\ \E q \in (a + 2)..Find(s, a, AlphaSet \cup SpaceSet, FALSE) :
                  AnyExact(s, << <<"S","t","r","e","e","t">>, <<"S","t">>, <<"A","v","e","n","u","e">>, <<"A","v","e">>, <<"R","o","a","d">>, <<"R","d">>, <<"D","r","i","v","e">>, <<"D","r">>,
                                 <<"L","a","n","e">>, <<"L","n">>, <<"C","i","r","c","l","e">>, <<"W","a","y">>, <<"P","l","a","c","e">>, <<"P","l">> >>, q)
        \* what follows the name of the second pattern, from offset p
        Place(s, p) ==
            \/ RunLen(s, p, DigitSet) > 0 /\ Address(s, p + RunLen(s, p, DigitSet))
            \/ AnyExact(s, << <<"H","i","l","l">>, <<"S","t","r","e","e","t">>, <<"A","v","e","n","u","e">>, <<"R","o","a","d">> >>, Spaces1(s, CapitalWord(s, p)))
        \* ^([A-Za-z\s'-]+?)\s+(?:...): where the lazy group 1 ends
        StartEnd(s) ==
            LET ends == {e \in 1..Find(s, 0, name_class, FALSE) :
                            Spaces1(s, e) # NoMatch /\ Place(s, Spaces1(s, e))}
            IN  IF ends = {} THEN NoMatch ELSE Leftmost(ends)
        \* ^([A-Z][a-z]+\s+[A-Z][a-z]+(?:\s+[A-Z][a-z]+)?): where group 1 ends
        TwoWords(s) == CapitalWord(s, Spaces1(s, CapitalWord(s, 0)))
        Fallback(s, e) == IF e = NoMatch THEN NoMatch ELSE OrElse(CapitalWord(s, Spaces1(s, e)), e)
        Fifth(name) ==
            IF HasWord(name, months \o << <<"p","o","l","i","c","e">>, <<"b","o","s","t","o","n">>, <<"d","e","p","a","r","t","m","e","n","t">> >>) THEN <<"U","n","k","n","o","w","n"," ","V","i","c","t","i","m">> ELSE name
        Pattern5(e) == IF e = NoMatch THEN <<"U","n","k","n","o","w","n"," ","V","i","c","t","i","m">> ELSE Fifth(Strip(Slice(text, 0, e)))
        Fourth(m, name) ==
            IF m[2] # NoMatch /\ Len(name) >= 2 /\ ~HasWord(name, << <<"l","a","t","e","r">>, <<"w","a","s">>, <<"h","a","d">>, <<"b","e","e","n">> >>) THEN name
            ELSE Pattern5(Fallback(text, TwoWords(text)))
        Pattern4(m) == Fourth(m, IF m[2] = NoMatch THEN <<>> ELSE Title(CollapseSpaces(Strip(Slice(text, m[1], m[2])))))
        Third(m, name) ==
            IF m[2] # NoMatch /\ Len(name) >= 2 /\ ~HasWord(name, << <<"v","i","c","t","i","m">>, <<"m","a","n">>, <<"w","o","m","a","n">>, <<"p","e","r","s","o","n">> >>) THEN name
            ELSE Pattern4(NameGroup(text, 4))
        Pattern3(m) == Third(m, IF m[2] = NoMatch THEN <<>> ELSE Title(CollapseSpaces(Strip(Slice(text, m[1], m[2])))))
        Second(e, name) ==
            IF e # NoMatch /\ Len(name) >= 2
               /\ ~HasWord(name, << <<"v","i","c","t","i","m">>, <<"m","a","n">>, <<"w","o","m","a","n">>, <<"p","e","r","s","o","n">>, <<"b","o","d","y">> >>) THEN name
            ELSE Pattern3(NameGroup(text, 3))
        Pattern2(e) == Second(e, IF e = NoMatch THEN <<>> ELSE Title(CollapseSpaces(NoPrefix(Strip(Slice(text, 0, e))))))
        First(m, name) ==
            IF m[2] # NoMatch /\ Len(name) >= 2 /\ ~HasWord(name, << <<"v","i","c","t","i","m">>, <<"m","a","n">>, <<"w","o","m","a","n">>, <<"p","e","r","s","o","n">> >>) THEN name
            ELSE Pattern2(StartEnd(text))
        Pattern1(m) == First(m, IF m[2] = NoMatch THEN <<>> ELSE Title(CollapseSpaces(NoAlias(Strip(Slice(text, m[1], m[2]))))))
    IN  Pattern1(NameGroup(text, 1))

\* parse_location: the first address of the text, the first neighbourhood of
\* the list that the text names, both, or 'Boston'
parse_location(text) ==
    LET hoods == << <<"R","o","x","b","u","r","y">>, <<"D","o","r","c","h","e","s","t","e","r">>, <<"M","a","t","t","a","p","a","n">>, <<"H","y","d","e"," ","P","a","r","k">>, <<"J","a","m","a","i","c","a"," ","P","l","a","i","n">>,
                    <<"E","a","s","t"," ","B","o","s","t","o","n">>, <<"S","o","u","t","h"," ","B","o","s","t","o","n">>, <<"C","h","a","r","l","e","s","t","o","w","n">>, <<"B","a","c","k"," ","B","a","y">>, <<"D","o","w","n","t","o","w","n">>,
                    <<"S","o","u","t","h"," ","E","n","d">>, <<"B","r","i","g","h","t","o","n">>, <<"A","l","l","s","t","o","n">>, <<"W","e","s","t"," ","R","o","x","b","u","r","y">>, <<"R","o","s","l","i","n","d","a","l","e">> >>
        named == {n \in 1..Len(hoods) : Contains(Lower(hoods[n]), Lower(text))}
        \* (?:at|on|near|in front of|behind) at offset i: where it ends
        Preposition(i) ==
            OrElse(Lit(text, <<"a","t">>, i), OrElse(Lit(text, <<"o","n">>, i), OrElse(Lit(text, <<"n","e","a","r">>, i),
                OrElse(Lit(text, <<"i","n"," ","f","r","o","n","t"," ","o","f">>, i), Lit(text, <<"b","e","h","i","n","d">>, i)))))
        \* \s+[A-Za-z\s\.]+?(?:Street|St|...|Pl)\.? behind the digits that end at a,
        \* the whitespace ending at w: the greedy \s+ takes all of it and the lazy
        \* class stops at the first suffix at least one character on; when there
        \* is none, \s+ gives its last character to the class
        Street(a, w) ==
            LET SuffixAt(q) == {k \in 1..14 : LitAt(text, report_suffixes[k], q)}
                Behind(q) == OptLit(text, <<".">>, q + Len(report_suffixes[Leftmost(SuffixAt(q))]))
                starts == {q \in (w + 1)..Find(text, a, AlphaSet \cup SpaceSet \cup {"."}, FALSE) : SuffixAt(q) # {}}
            IN  IF w = NoMatch THEN NoMatch
                ELSE IF starts # {} THEN Behind(Leftmost(starts))
                ELSE IF w >= a + 2 /\ SuffixAt(w) # {} THEN Behind(w)
                ELSE NoMatch
        Digits(d) == d + RunLen(text, d, DigitSet)
        \* the span of group 1 when the digits start at offset d
        Address(d) ==
            IF d = NoMatch \/ RunLen(text, d, DigitSet) = 0 THEN <<NoMatch, NoMatch>>
            ELSE SpanIf(d, d, Street(Digits(d), Spaces1(text, Digits(d))))
        Group(m) == <<m[1], Street(Digits(m[1]), Spaces1(text, Digits(m[1])))>>
        Location(m) ==
            IF m[2] # NoMatch
            THEN Strip(Slice(text, m[1], Group(m)[2]))
                    \o (IF named = {} THEN <<>> ELSE <<","," ">> \o hoods[Leftmost(named)])
            ELSE IF named # {} THEN hoods[Leftmost(named)]
            ELSE <<"B","o","s","t","o","n">>
    IN  Location(LeftmostSpan({<<i, Address(Spaces1(text, Preposition(i)))>> : i \in 0..(Len(text) - 1)}))

MAX_CASES == 25

\* lines 239-258 of scrape_boston_cases: the blocks of the page text that are
\* not empty, each with its description and the current_date of its turn.  A
\* block that starts with a date sets current_date for itself and for the
\* blocks after it, and its description is what follows the date
ReportBlocks(content) ==
    LET \* re.split(r'\n\s*\n', content) from offset i on: a separator runs from a
        \* line feed to the last line feed of the whitespace that follows it
        LastFeed(p) == {q \in (p + 1)..(Spaces0(content, p + 1) - 1) : content[q + 1] = "\n"}
        Separators(i) == {p \in i..(Len(content) - 1) : content[p + 1] = "\n" /\ LastFeed(p) # {}}
        End(p) == (CHOOSE q \in LastFeed(p) : \A r \in LastFeed(p) : r <= q) + 1
        RECURSIVE Blocks(_)
        Blocks(i) ==
            IF Separators(i) = {} THEN <<Slice(content, i, Len(content))>>
            ELSE <<Slice(content, i, Leftmost(Separators(i)))>> \o Blocks(End(Leftmost(Separators(i))))
        \* re.match(date_pattern, block): where the date ends.  The month names
        \* are matched as they are written in the pattern
        ExactMonth(block) ==
            IF \E m \in 1..12 : StartsAt(block, Title(months[m]), 0)
            THEN Len(months[CHOOSE m \in 1..12 : StartsAt(block, Title(months[m]), 0)])
            ELSE NoMatch
        Day(block, p) ==
            IF p = NoMatch \/ RunLen(block, p, DigitSet) = 0 THEN NoMatch
            ELSE IF RunLen(block, p, DigitSet) > 2 THEN p + 2 ELSE p + RunLen(block, p, DigitSet)
        Year(block, e) == OrElse(Lit(block, <<"2","0","1","4">>, Spaces1(block, OptLit(block, <<",">>, e))), e)
        DateEnd(block) == Year(block, Day(block, Spaces1(block, ExactMonth(block))))
        RECURSIVE Loop(_, _, _)
        Dated(blocks, i, block, e) ==
            <<[current_date |-> Slice(block, 0, e), description |-> Strip(Slice(block, e, Len(block)))]>>
                \o Loop(blocks, i + 1, Slice(block, 0, e))
        Block(blocks, i, block, current_date) ==
            IF block = <<>> THEN Loop(blocks, i + 1, current_date)
            ELSE IF DateEnd(block) # NoMatch THEN Dated(blocks, i, block, DateEnd(block))
            ELSE <<[current_date |-> current_date, description |-> block]>> \o Loop(blocks, i + 1, current_date)
        Loop(blocks, i, current_date) ==
            IF i > Len(blocks) THEN <<>> ELSE Block(blocks, i, Strip(blocks[i]), current_date)
    IN  Loop(Blocks(0), 1, None)

\* lines 260-279 of scrape_boston_cases: the cases of the blocks, in the order
\* of the blocks.  A block of more than 20 characters behind its date becomes
\* a case when current_date can be parsed and the cleaned description is not
\* empty
ExtractedCases(blocks) ==
    LET Case(description, date, name, location) ==
            [date |-> date, victim_name |-> name, location |-> location,
             description |-> cleanup_description(description, date, name, location)]
        Cases(description, parsed_date) ==
            IF Len(description) <= 20 \/ parsed_date = None THEN <<>>
            ELSE SelectSeq(<<Case(description, parsed_date, extract_name(description), parse_location(description))>>,
                           LAMBDA case : case.description # <<>>)
        RECURSIVE Loop(_)
        Loop(i) ==
            IF i > Len(blocks) THEN <<>>
            ELSE Cases(blocks[i].description, parse_date(blocks[i].current_date)) \o Loop(i + 1)
    IN  Loop(1)

\* lines 282-292 of scrape_boston_cases: the dictionary keyed by name and date
\* (a key stays where it was first inserted and holds the value inserted
\* last), the stable sort by date, and the limit of MAX_CASES
KeptCases(cases) ==
    LET Same(i, j) == cases[i].victim_name = cases[j].victim_name /\ cases[i].date = cases[j].date
        firsts == SelectSeq([i \in 1..Len(cases) |-> i], LAMBDA i : \A j \in 1..(i - 1) : ~Same(i, j))
        Last(i) == CHOOSE j \in i..Len(cases) : Same(i, j) /\ \A k \in (j + 1)..Len(cases) : ~Same(i, k)
        unique == [k \in 1..Len(firsts) |-> cases[Last(firsts[k])]]
        \* datetime.strptime(x['date'].replace(',', ''), '%B %d %Y')
        MonthOf(date) == CHOOSE m \in 1..12 : LitAt(date, months[m], 0)
        Key(date) ==
            <<ParseInt(Slice(date, Len(date) - 4, Len(date))), MonthOf(date),
              ParseInt(Slice(date, Len(months[MonthOf(date)]) + 1, Len(months[MonthOf(date)]) + 3))>>
        Before(a, b) ==
            \/ a[1] < b[1]
            \/ a[1] = b[1] /\ a[2] < b[2]
            \/ a[1] = b[1] /\ a[2] = b[2] /\ a[3] < b[3]
        Rank(keys, i) ==
            1 + Cardinality({j \in 1..Len(keys) : Before(keys[j], keys[i]) \/ (keys[j] = keys[i] /\ j < i)})
        Sorted(list, keys) == [k \in 1..Len(list) |-> list[CHOOSE i \in 1..Len(list) : Rank(keys, i) = k]]
        Limit(list) == IF Len(list) > MAX_CASES THEN SubSeq(list, 1, MAX_CASES) ELSE list
    IN  Limit(Sorted(unique, [k \in 1..Len(unique) |-> Key(unique[k].date)]))

(***************************************************************************)
(* The report generator's scrape on its own: a page is made of blocks      *)
(* between blank lines, or the site cannot be reached                      *)
(***************************************************************************)
\* a dated case, a block without a date, a block with a date that no
\* calendar has, a second account of the first case, a date on its own
ReportPieces ==
    << (* "January 5, 2014 John Smith 12 Main Street On January 5, 2014, officers responded to a call." *)
            <<"J","a","n","u","a","r","y"," ","5",","," ","2","0","1","4"," ","J","o","h","n"," ",
            "S","m","i","t","h"," ","1","2"," ","M","a","i","n"," ","S","t","r","e","e","t"," ",
            "O","n"," ","J","a","n","u","a","r","y"," ","5",","," ","2","0","1","4",","," ","o",
            "f","f","i","c","e","r","s"," ","r","e","s","p","o","n","d","e","d"," ","t","o"," ",
            "a"," ","c","a","l","l",".">> \o <<"\n", "\n">>,
       (* "The victim was identified as Mary Jones, 25. She was shot near 7 Park Street." *)
            <<"T","h","e"," ","v","i","c","t","i","m"," ","w","a","s"," ","i","d","e","n","t","i",
            "f","i","e","d"," ","a","s"," ","M","a","r","y"," ","J","o","n","e","s",","," ","2",
            "5","."," ","S","h","e"," ","w","a","s"," ","s","h","o","t"," ","n","e","a","r"," ",
            "7"," ","P","a","r","k"," ","S","t","r","e","e","t",".">> \o <<"\n", " ", "\n">>,
       (* "February 30, 2014 The body of Tom Brown was found at 3 Oak Avenue in Roxbury." *)
            <<"F","e","b","r","u","a","r","y"," ","3","0",","," ","2","0","1","4"," ","T","h","e",
            " ","b","o","d","y"," ","o","f"," ","T","o","m"," ","B","r","o","w","n"," ","w","a",
            "s"," ","f","o","u","n","d"," ","a","t"," ","3"," ","O","a","k"," ","A","v","e","n",
            "u","e"," ","i","n"," ","R","o","x","b","u","r","y",".">> \o <<"\n", "\n">>,
       (* "January 5 John Smith 12 Main Street Detectives found him stabbed behind 9 Elm Road." *)
            <<"J","a","n","u","a","r","y"," ","5"," ","J","o","h","n"," ","S","m","i","t","h"," ",
            "1","2"," ","M","a","i","n"," ","S","t","r","e","e","t"," ","D","e","t","e","c","t",
            "i","v","e","s"," ","f","o","u","n","d"," ","h","i","m"," ","s","t","a","b","b","e",
            "d"," ","b","e","h","i","n","d"," ","9"," ","E","l","m"," ","R","o","a","d",".">> \o <<"\n", "\n">>,
       <<"M","a","r","c","h"," ","3",","," ","2","0","1","4">> \o <<"\n", "\n", "\n">> >>

InitReport ==
    /\ InitChecker
    /\ input \in [content : PieceTexts(ReportPieces, MaxPieces), error : {""}]
                    \cup [content : {<<>>}, error : {"ConnectionError", "HTTPError"}]
    /\ output = <<>>
    /\ pc = "page"

\* scrape_boston_cases of src/boston_2014.py: boston_cases is replaced by the
\* cases of the page; when requests.get or raise_for_status raises, the
\* except clause returns the error and boston_cases stays as it was
ScrapeReport ==
    /\ pc = "page"
    /\ boston_cases' = IF input.error # "" THEN boston_cases ELSE KeptCases(ExtractedCases(ReportBlocks(input.content)))
    /\ output' = IF input.error # "" THEN [status |-> "Error scraping Boston Police", n |-> 0]
                 ELSE [status |-> "Found", n |-> Len(boston_cases')]
    /\ pc' = "scraped"
    /\ UNCHANGED <<cold_case_db, matches, last_call, calls, input>>

SpecReport == InitReport /\ [][ScrapeReport]_vars

(***************************************************************************)
(* Properties of the matcher                                               *)
(***************************************************************************)
\* C1: every candidate that find_enhanced_boston_matches puts in matches has
\* a score between 0.0 and 1.0 inclusive, and at least one reason whenever
\* its score is greater than 0.
C1_ScoreInRangeWithReasons ==
    \A k \in 1..Len(matches) :
        /\ ~FloatLess(matches[k].match_score, Float(0))
        /\ ~FloatLess(Float(10), matches[k].match_score)
        /\ (FloatLess(Float(0), matches[k].match_score) => Len(matches[k].match_reasons) >= 1)

\* a candidate whose four rules add up to 1.5 and whose score is 1.0
C1_Witness ==
    \E k \in 1..Len(matches) :
        /\ ScoreWithoutCeiling(matches[k].boston_case, matches[k].cold_case) = Float(15)
        /\ matches[k].match_score = Float(10)
        /\ Len(matches[k].match_reasons) = 5

\* the reasons of the list that begin with one of the prefixes
ReasonsWith(reasons, prefixes) ==
    {k \in 1..Len(reasons) : \E p \in prefixes : StartsAt(reasons[k], p, 0)}

NameReasonPrefixes == {(* "Exact victim name match: " *)
            <<"E","x","a","c","t"," ","v","i","c","t","i","m"," ","n","a","m","e"," ","m","a","t",
            "c","h",":"," ">>, <<"P","a","r","t","i","a","l"," ","n","a","m","e"," ","m","a","t","c","h",":"," ">>}

AgeReasonPrefixes == {<<"E","x","a","c","t"," ","a","g","e"," ","m","a","t","c","h",":"," ">>, <<"V","e","r","y"," ","c","l","o","s","e"," ","a","g","e",":"," ">>, <<"S","i","m","i","l","a","r"," ","a","g","e"," ","r","a","n","g","e",":"," ">>}

YearReasonPrefixes == {<<"S","a","m","e"," ","y","e","a","r",":"," ">>, <<"A","d","j","a","c","e","n","t"," ","y","e","a","r","s",":"," ">>, <<"C","l","o","s","e"," ","t","i","m","e","f","r","a","m","e",":"," ">>}

LocationReasonPrefixes == {<<"E","x","a","c","t"," ","l","o","c","a","t","i","o","n"," ","m","a","t","c","h",":"," ">>, <<"L","o","c","a","t","i","o","n"," ","o","v","e","r","l","a","p",":"," ">>}

AreaReasonPrefixes == {(* "Confirmed Boston area case" *)
            <<"C","o","n","f","i","r","m","e","d"," ","B","o","s","t","o","n"," ","a","r","e","a",
            " ","c","a","s","e">>}

\* C2: each of the four scoring rules (name, age, date/year, location) that
\* adds a nonzero amount to the score of a pair contributes exactly one reason
\* string to the reasons of the same pair.  The reasons of a rule are those
\* that begin with one of its statements; for the location rule the area
\* confirmation may be counted with them or not.
C2_OneReasonPerNonzeroRule ==
    pc = "scored" =>
        /\ NameRule(Lower(input[1].victim_name), Lower(input[2].victim_name)) # 0
              => Cardinality(ReasonsWith(output.match_reasons, NameReasonPrefixes)) = 1
        /\ AgeRule(input[1].age, input[2].age) # 0
              => Cardinality(ReasonsWith(output.match_reasons, AgeReasonPrefixes)) = 1
        /\ YearRule(_extract_year(input[1].date), _extract_year(input[2].date)) # 0
              => Cardinality(ReasonsWith(output.match_reasons, YearReasonPrefixes)) = 1
        /\ LocationRule(Lower(input[1].location), Lower(input[2].location)) # 0
              => \/ Cardinality(ReasonsWith(output.match_reasons, LocationReasonPrefixes)) = 1
                 \/ Cardinality(ReasonsWith(output.match_reasons,
                        LocationReasonPrefixes \cup AreaReasonPrefixes)) = 1

\* the four fields of the two records are the same
IdenticalFields ==
    /\ input[1].victim_name = input[2].victim_name
    /\ input[1].age = input[2].age
    /\ input[1].date = input[2].date
    /\ input[1].location = input[2].location

\* the score is 1.0 and there is an exact-match statement for each dimension
FullMatch ==
    /\ output.match_score = Float(10)
    /\ ReasonsWith(output.match_reasons, {(* "Exact victim name match: " *)
            <<"E","x","a","c","t"," ","v","i","c","t","i","m"," ","n","a","m","e"," ","m","a","t",
            "c","h",":"," ">>}) # {}
    /\ ReasonsWith(output.match_reasons, {<<"E","x","a","c","t"," ","a","g","e"," ","m","a","t","c","h",":"," ">>}) # {}
    /\ ReasonsWith(output.match_reasons, {<<"S","a","m","e"," ","y","e","a","r",":"," ">>}) # {}
    /\ ReasonsWith(output.match_reasons, {<<"E","x","a","c","t"," ","l","o","c","a","t","i","o","n"," ","m","a","t","c","h",":"," ">>}) # {}

\* the four fields of the first record hold a value: a name that is not the
\* 'Unknown' sentinel, an age that is neither None nor 0, a date with a year
\* in it, and a location that is not empty
PresentFields ==
    /\ input[1].victim_name # <<>> /\ Lower(input[1].victim_name) # <<"u","n","k","n","o","w","n">>
    /\ TruthyInt(input[1].age)
    /\ _extract_year(input[1].date) # NoneInt
    /\ input[1].location # <<>>

\* C3 as the claim states it: for all pairs whose victim name, age, date and
\* location are identical, the score is 1.0 and the reasons contain an
\* exact-match statement for each of the four dimensions.
C3_IdenticalIsFullMatch == (pc = "scored" /\ IdenticalFields) => FullMatch

\* C3 as the code has it: for all pairs whose victim name, age, date and
\* location are identical and present (no sentinel, no None, no 0, a date
\* with a year), the score is 1.0 and the reasons contain an exact-match
\* statement for each of the four dimensions.
C3_IdenticalPresentIsFullMatch ==
    (pc = "scored" /\ IdenticalFields /\ PresentFields) => FullMatch

\* an identical pair whose location is no Boston area: the location rule adds
\* nothing, and the score is 1.0 all the same
C3_Witness ==
    /\ pc = "scored" /\ IdenticalFields /\ PresentFields
    /\ input[1].location = <<"4","5"," ","m","a","i","n"," ","s","t","r","e","e","t">>
    /\ output.match_score = Float(10)

\* the pair of boston_cases[i] and cold_case_db[j] is one that the claim has
\* retained: the year of the first is 2014 and the score exceeds 0.2
Qualifies(i, j) ==
    /\ _extract_year(boston_cases[i].date) = 2014
    /\ FloatLess(Float(2), _calculate_enhanced_match_score(boston_cases[i], cold_case_db[j]))

\* the places of the candidates of matches that hold the two records
CandidatesOf(boston_case, cold_case) ==
    {k \in 1..Len(matches) :
        matches[k].boston_case = boston_case /\ matches[k].cold_case = cold_case}

\* the places <<i, j>> of the pairs that hold the two records
PlacesOf(boston_case, cold_case) ==
    {p \in (1..Len(boston_cases)) \X (1..Len(cold_case_db)) :
        boston_cases[p[1]] = boston_case /\ cold_case_db[p[2]] = cold_case}

\* C4: after find_enhanced_boston_matches returns, matches holds exactly one
\* candidate for each pair (a, b) with a in boston_cases of year 2014, b in
\* cold_case_db and a score strictly greater than 0.2, and no other candidate.
C4_ExactlyThePairsAboveThreshold ==
    last_call.op = "find_enhanced_boston_matches" =>
        /\ \A k \in 1..Len(matches) :
              \E i \in 1..Len(boston_cases), j \in 1..Len(cold_case_db) :
                  /\ Qualifies(i, j)
                  /\ matches[k].boston_case = boston_cases[i]
                  /\ matches[k].cold_case = cold_case_db[j]
                  /\ matches[k].match_score
                        = _calculate_enhanced_match_score(boston_cases[i], cold_case_db[j])
        /\ \A i \in 1..Len(boston_cases), j \in 1..Len(cold_case_db) :
              Qualifies(i, j) =>
                  Cardinality(CandidatesOf(boston_cases[i], cold_case_db[j]))
                      = Cardinality(PlacesOf(boston_cases[i], cold_case_db[j]))

\* a pair of year 2014 that scores exactly 0.2 is left out, another is retained
C4_Witness ==
    /\ last_call.op = "find_enhanced_boston_matches"
    /\ matches # <<>>
    /\ \E i \in 1..Len(boston_cases), j \in 1..Len(cold_case_db) :
          /\ _extract_year(boston_cases[i].date) = 2014
          /\ _calculate_enhanced_match_score(boston_cases[i], cold_case_db[j]) = Float(2)
          /\ CandidatesOf(boston_cases[i], cold_case_db[j]) = {}

\* the pairs the claim has retained, in the order of their enumeration: the
\* outer loop over boston_cases, the inner loop over cold_case_db
Enumerated ==
    LET n == Len(cold_case_db)
        places == [k \in 1..(Len(boston_cases) * n) |-> <<((k - 1) \div n) + 1, ((k - 1) % n) + 1>>]
        Retain(p) == Qualifies(p[1], p[2])
        kept == SelectSeq(places, Retain)
    IN  [k \in 1..Len(kept) |->
            [boston_case |-> boston_cases[kept[k][1]],
             cold_case |-> cold_case_db[kept[k][2]],
             match_score |-> _calculate_enhanced_match_score(boston_cases[kept[k][1]],
                                                             cold_case_db[kept[k][2]])]]

\* the pairs of the candidates of a list that have the given score
PairsWithScore(candidates, score) ==
    LET Same(c) == c.match_score = score
        same == SelectSeq(candidates, Same)
    IN  [k \in 1..Len(same) |-> <<same[k].boston_case, same[k].cold_case>>]

\* C5: the list find_enhanced_boston_matches returns is ordered by
\* non-increasing score, and candidates of equal score appear in the order in
\* which their pairs were enumerated.
C5_SortedAndStable ==
    last_call.op = "find_enhanced_boston_matches" =>
        /\ \A k \in 1..(Len(matches) - 1) :
              ~FloatLess(matches[k].match_score, matches[k + 1].match_score)
        /\ \A k \in 1..Len(matches) :
              PairsWithScore(matches, matches[k].match_score)
                  = PairsWithScore(Enumerated, matches[k].match_score)

\* two candidates of equal score, and a third one behind them
C5_Witness ==
    /\ last_call.op = "find_enhanced_boston_matches"
    /\ Len(matches) >= 3
    /\ matches[1].match_score = matches[2].match_score
    /\ matches[1].boston_case # matches[2].boston_case
    /\ FloatLess(matches[3].match_score, matches[2].match_score)

\* the record with every dimension but one missing
OnlyName(r) == ScoreRecord(r.victim_name, NoneInt, None, <<>>)

OnlyAge(r) == ScoreRecord(<<>>, r.age, None, <<>>)

OnlyDate(r) == ScoreRecord(<<>>, NoneInt, r.date, <<>>)

OnlyLocation(r) == ScoreRecord(<<>>, NoneInt, None, r.location)

\* the tenths a dimension contributes on its own
NameTenths == _calculate_enhanced_match_score(OnlyName(input[1]), OnlyName(input[2]))[1]

AgeTenths == _calculate_enhanced_match_score(OnlyAge(input[1]), OnlyAge(input[2]))[1]

YearTenths == _calculate_enhanced_match_score(OnlyDate(input[1]), OnlyDate(input[2]))[1]

LocationTenths ==
    _calculate_enhanced_match_score(OnlyLocation(input[1]), OnlyLocation(input[2]))[1]

\* x + tenths/10 as Python adds it
Plus(x, tenths) == IF tenths = 0 THEN x ELSE FloatAdd(x, tenths)

\* a field that is missing or a sentinel
NoName(r) == r.victim_name = <<>> \/ Lower(r.victim_name) = <<"u","n","k","n","o","w","n">>

NoAge(r) == r.age = NoneInt \/ r.age = 0

NoDate(r) == r.date = None \/ r.date = <<>>

NoLocation(r) == r.location = <<>> \/ r.location = <<"u","n","k","n","o","w","n"," ","l","o","c","a","t","i","o","n">>

\* C6: the score of a pair is min(1.0, name + age + year + location), each of
\* the four contributions being what its rule gives for the pair with the other
\* three dimensions missing (name 0.6/0.4/0, the others 0.3/0.2/0.1/0); a
\* dimension whose field is missing or a sentinel on either side contributes
\* 0, without an error and without changing the other contributions.
C6_ClampedSumOfIndependentRules ==
    pc = "scored" =>
        /\ NameTenths \in {0, 4, 6}
        /\ AgeTenths \in {0, 1, 2, 3}
        /\ YearTenths \in {0, 1, 2, 3}
        /\ LocationTenths \in {0, 1, 2, 3}
        /\ output.match_score
              = FloatMin(Plus(Plus(Plus(Plus(Float(0), NameTenths), AgeTenths), YearTenths),
                              LocationTenths),
                         Float(10))
        /\ (NoName(input[1]) \/ NoName(input[2])) => NameTenths = 0
        /\ (NoAge(input[1]) \/ NoAge(input[2])) => AgeTenths = 0
        /\ (NoDate(input[1]) \/ NoDate(input[2])) => YearTenths = 0
        /\ (NoLocation(input[1]) \/ NoLocation(input[2])) => LocationTenths = 0

\* a pair without an age on one side whose other three dimensions add up to
\* 1.2, which the ceiling makes 1.0
C6_Witness ==
    /\ pc = "scored"
    /\ input[1].age = NoneInt /\ input[2].age = 30
    /\ NameTenths = 6 /\ YearTenths = 3 /\ LocationTenths = 3
    /\ output.match_score = Float(10)

(***************************************************************************)
(* Properties of the records of the primary source                         *)
(***************************************************************************)
\* the validity predicate as the claim states it
ValidRecord(r) ==
    \/ r.victim_name # <<"U","n","k","n","o","w","n">> /\ r.date # None
    \/ r.location # <<"u","n","k","n","o","w","n"," ","l","o","c","a","t","i","o","n">> /\ r.date # None
    \/ Len(r.description) > 100

\* C7: after any sequence of scrape_boston_cases calls, every record in
\* boston_cases satisfies the validity predicate: (name is not 'Unknown' and
\* date is present) or (location is not 'unknown location' and date is
\* present) or (description longer than 100 characters).
C7_OnlyValidRecords == \A k \in 1..Len(boston_cases) : ValidRecord(boston_cases[k])

\* page 2 was read: its first block is not in the list, its second block is
C7_Witness ==
    /\ last_call.op = "scrape_boston_cases" /\ last_call.page = 2
    /\ Len(boston_cases) = 1
    /\ boston_cases[1].case_id = 2
    /\ boston_cases[1].victim_name = <<"U","n","k","n","o","w","n">>
    /\ boston_cases[1].location = <<"m","a","t","t","a","p","a","n">>

\* the places of the input whose record is the first one of its signature
FirstPlaces ==
    {i \in 1..Len(input) :
        \A j \in 1..(i - 1) : Signature(input[j]) # Signature(input[i])}

\* C8: _remove_duplicate_cases returns a subsequence of its input in the same
\* relative order, with exactly one record per signature present in the input,
\* which is the first record of the input with that signature.
C8_FirstOfEachSignatureInOrder ==
    pc \in {"deduped", "deduped twice"} =>
        /\ \E f \in [1..Len(output[1]) -> 1..Len(input)] :
              /\ \A k \in 1..Len(output[1]) : output[1][k] = input[f[k]]
              /\ \A k \in 1..(Len(output[1]) - 1) : f[k] < f[k + 1]
        /\ \A i \in 1..Len(input) :
              Cardinality({k \in 1..Len(output[1]) :
                              Signature(output[1][k]) = Signature(input[i])}) = 1
        /\ \A k \in 1..Len(output[1]) :
              \E i \in FirstPlaces : output[1][k] = input[i]

\* a list whose first and last record have one signature and differ, with
\* a record of another signature between them
C8_Witness ==
    /\ pc = "deduped"
    /\ Len(input) = 3
    /\ Signature(input[1]) = Signature(input[3]) /\ input[1] # input[3]
    /\ Signature(input[2]) # Signature(input[1])
    /\ output[1] = <<input[1], input[2]>>

\* C9: de-duplication is idempotent: de-duplicating the de-duplicated list
\* gives the same list.
C9_DedupIdempotent == pc = "deduped twice" => output[2] = output[1]

\* a list of three records of one signature, de-duplicated twice
C9_Witness ==
    /\ pc = "deduped twice"
    /\ Len(input) = 3
    /\ Signature(input[1]) = Signature(input[2]) /\ Signature(input[2]) = Signature(input[3])
    /\ output = <<(<<input[1]>>), (<<input[1]>>)>>

\* the number the p-th pattern captures in the text, None without a match
Capture(p) == GroupInt(input, AgeSearch(input, p))

\* C10: _extract_age returns None or an integer in [1,100] for every text; a
\* pattern whose first capture is out of range is skipped and the next pattern
\* of the list is tried, so that the result is the capture of the first
\* pattern whose capture is in range.
C10_FirstCaptureInRange ==
    pc = "age read" =>
        /\ output = NoneInt \/ output \in 1..100
        /\ \A p \in 1..5 :
              (/\ Capture(p) \in 1..100
               /\ \A q \in 1..(p - 1) : Capture(q) \notin 1..100)
                  => output = Capture(p)
        /\ (\A p \in 1..5 : Capture(p) \notin 1..100) => output = NoneInt

\* the first pattern captures 0, the second one 25
C10_Witness ==
    /\ pc = "age read"
    /\ AgeSearch(input, 1)[2] # NoMatch /\ Capture(1) = 0
    /\ Capture(2) = 25
    /\ output = 25

(***************************************************************************)
(* Properties of the records of the two sources                            *)
(***************************************************************************)
\* an age that may be stored: None or a plausible human age
PlausibleAge(age) == age = NoneInt \/ age \in 1..100

\* C11: for every record in either list fed to the matcher (boston_cases and
\* cold_case_db), the age is either None or an integer in [1,100]; an
\* implausible value is never stored.
C11_PlausibleAges ==
    /\ \A k \in 1..Len(boston_cases) : PlausibleAge(boston_cases[k].age)
    /\ \A k \in 1..Len(cold_case_db) : PlausibleAge(cold_case_db[k].age)

(***************************************************************************)
(* Properties of the block segmenter                                       *)
(***************************************************************************)
\* the text as the segmenter sees it: white space collapsed and trimmed
Normalized == Strip(CollapseSpaces(input))

\* the offsets of a text at which the date pattern matches
DateOffsets(text) == {j \in 0..(Len(text) - 1) : Date2014At(text, j) # NoMatch}

\* C12: segmenting a text with zero occurrences of the date pattern yields an
\* empty list of blocks, and not a single block covering the whole text.
C12_NoDateNoBlock == (pc = "blocks" /\ DateOffsets(input) = {}) => output = <<>>

\* a text of more than 100 characters without any date, segmented
C12_Witness ==
    /\ pc = "blocks"
    /\ DateOffsets(input) = {}
    /\ Len(Normalized) > 100
    /\ output = <<>>

\* where the span that starts at the match at offset j ends: at the start of
\* the next match, or at the end of the text
SpanEnd(text, offsets, j) ==
    IF \E k \in offsets : k > j
    THEN CHOOSE k \in offsets : k > j /\ \A l \in offsets : l > j => k <= l
    ELSE Len(text)

\* the trimmed span that starts at offset j
SpanText(text, offsets, j) == Strip(Slice(text, j, SpanEnd(text, offsets, j)))

\* the offsets of the matches whose trimmed span has more than 100 characters
LongSpans(text, offsets) == {j \in offsets : Len(SpanText(text, offsets, j)) > 100}

\* the k-th of a set of offsets, from the left
Kth(offsets, k) == CHOOSE j \in offsets : Cardinality({i \in offsets : i < j}) = k - 1

\* the blocks are the long spans of the text, from left to right
SpansEmitted(blocks, text, offsets, long) ==
    /\ Len(blocks) = Cardinality(long)
    /\ \A k \in 1..Len(blocks) :
          /\ blocks[k] = SpanText(text, offsets, Kth(long, k))
          /\ Len(blocks[k]) > 100
          /\ Date2014At(blocks[k], 0) # NoMatch
          /\ \A j \in offsets : Kth(long, k) >= j \/ SpanEnd(text, offsets, Kth(long, k)) <= j
    /\ \A k \in 1..(Len(blocks) - 1) : SpanEnd(text, offsets, Kth(long, k)) <= Kth(long, k + 1)

\* C13: _split_into_case_blocks emits, in source order, exactly the spans from
\* one date match to the next (the last one to the end of the text) whose
\* trimmed length is strictly greater than 100; the spans do not overlap,
\* every block begins with a date match, and the text before the first match
\* belongs to no block.
C13_SpansBetweenDates ==
    pc = "blocks" =>
        LET text == Normalized
            offsets == DateOffsets(text)
        IN  SpansEmitted(output, text, offsets, LongSpans(text, offsets))

\* two dates: the span of the first has more than 100 characters and is a
\* block, the span of the second has exactly 100 characters and is none
C13_Witness ==
    /\ pc = "blocks"
    /\ Len(output) = 1
    /\ LET text == Normalized
           offsets == DateOffsets(text)
       IN  /\ Cardinality(offsets) = 2
           /\ \E j \in offsets : j > 0 /\ Len(SpanText(text, offsets, j)) = 100

(***************************************************************************)
(* Properties of the field extractors                                      *)
(***************************************************************************)
\* C14: for all text containing "identified as John Smith, 30", the name
\* extractor returns "John Smith", whatever else the text contains.
C14_IdentifiedAsWins ==
    (pc = "name" /\ Contains((* "identified as John Smith, 30" *)
            <<"i","d","e","n","t","i","f","i","e","d"," ","a","s"," ","J","o","h","n"," ","S","m",
            "i","t","h",","," ","3","0">>, input))
        => output = <<"J","o","h","n"," ","S","m","i","t","h">>

\* the block of the scenario
MariaLopezBlock == RecordPieces[1] \o RecordPieces[2] \o RecordPieces[3]

\* C15: the record assembler on the block "January 5, 2014 The victim was
\* later identified as Maria Lopez, 29, and was pronounced deceased at 45 Main
\* Street, Dorchester." yields a record with name "Maria Lopez", age 29, date
\* "January 5, 2014" and a location that contains "Dorchester".
C15_MariaLopezRecord ==
    (pc = "record" /\ input = MariaLopezBlock) =>
        /\ output # NoCase
        /\ output.victim_name = <<"M","a","r","i","a"," ","L","o","p","e","z">>
        /\ output.age = 29
        /\ output.date = <<"J","a","n","u","a","r","y"," ","5",","," ","2","0","1","4">>
        /\ Contains(<<"d","o","r","c","h","e","s","t","e","r">>, Lower(output.location))

(***************************************************************************)
(* Properties of the matcher: a scenario                                   *)
(***************************************************************************)
\* C16: for a = Robert Jones, 34, Roxbury, 2014 and b = Bob Jones, 35,
\* Roxbury, 2014 the matcher scores a partial name match (+0.4), a close age
\* (+0.2), the same year (+0.3) and the same area (+0.2 or +0.3): a clamped
\* score of at least 0.9, with at least 3 reason strings.
C16_RobertAndBobJones ==
    (pc = "scored" /\ input[1] \in RobertJonesRecords /\ input[2] \in BobJonesRecords) =>
        /\ NameRule(Lower(input[1].victim_name), Lower(input[2].victim_name)) = 2
        /\ AgeRule(input[1].age, input[2].age) = 2
        /\ YearRule(_extract_year(input[1].date), _extract_year(input[2].date)) = 1
        /\ LocationRule(Lower(input[1].location), Lower(input[2].location)) \in {1, 2}
        /\ ~FloatLess(output.match_score, Float(9))
        /\ ~FloatLess(Float(10), output.match_score)
        /\ Len(output.match_reasons) >= 3
        /\ ReasonsWith(output.match_reasons, {<<"P","a","r","t","i","a","l"," ","n","a","m","e"," ","m","a","t","c","h",":"," ">>}) # {}
        /\ ReasonsWith(output.match_reasons, {<<"V","e","r","y"," ","c","l","o","s","e"," ","a","g","e",":"," ">>}) # {}
        /\ ReasonsWith(output.match_reasons, {<<"S","a","m","e"," ","y","e","a","r",":"," ">>}) # {}

\* the pair with the place spelled as a neighborhood on one side and as an
\* address on the other: 0.4 + 0.2 + 0.3 + 0.2, which the ceiling makes 1.0
C16_Witness ==
    /\ pc = "scored"
    /\ input[1] \in RobertJonesRecords /\ input[2] \in BobJonesRecords
    /\ input[1].location = <<"R","o","x","b","u","r","y">> /\ input[2].location = <<"1","2"," ","r","o","x","b","u","r","y"," ","s","t","r","e","e","t">>
    /\ ScoreWithoutCeiling(input[1], input[2]) = Float(11)
    /\ output.match_score = Float(10)
    /\ Len(output.match_reasons) = 5

(***************************************************************************)
(* Properties of the description normalizer                                *)
(***************************************************************************)
\* C17: the description normalizer is idempotent on its own output: for every
\* description d that cleanup_description returned, cleanup_description of d
\* (with the name of the same case), as generate_html_report applies it to
\* each stored case, returns d unchanged.
C17_CleanupIsIdempotent == pc = "reported" => output[2] = output[1]

(***************************************************************************)
(* Properties of the two scrape operations                                 *)
(***************************************************************************)
\* C18: when the fetch of a source page fails (requests.get raises for a
\* network error or a timeout, or the answer has a status other than 200), the
\* scrape operation adds no record: both record lists are as they were before
\* the call, and the operation returns a status string.
C18_FailedFetchAddsNothing ==
    [][(/\ calls' = calls + 1
        /\ last_call'.op \in {"scrape_boston_cases", "scrape_cold_case_db"}
        /\ \/ last_call'.page = 0
           \/ /\ last_call'.page # 0
              /\ (IF last_call'.op = "scrape_boston_cases"
                  THEN BostonStatus[last_call'.page]
                  ELSE ColdStatus[last_call'.page]) # 200)
       => /\ boston_cases' = boston_cases
          /\ cold_case_db' = cold_case_db
          /\ last_call'.status \in {"Error", "Warning", "Found"}]_vars

C20_CountsOccurrences ==
    LET Occurrences(indicators, text_lower) ==
            Cardinality({h \in (1..Len(indicators)) \X (0..Len(text_lower)) :
                            StartsAt(text_lower, indicators[h[1]], h[2])})
        males == Occurrences(male_indicators, Lower(input))
        females == Occurrences(female_indicators, Lower(input))
    IN  pc = "gender" =>
            output = (IF males > females THEN "male"
                      ELSE IF females > males THEN "female"
                      ELSE "unknown")

(***************************************************************************)
(* Properties of the age extractor: whole numbers                          *)
(***************************************************************************)
\* C21: an implausible age in the text is discarded rather than stored: for a
\* text whose only age phrase carries a number outside [1,100] (as in
\* "250 years old"), _extract_age returns None and never a value derived
\* from a part of that number.  The numbers a text carries are its maximal
\* runs of digits; when none of them is in [1,100] the result is None.
C21_ImplausibleAgeDiscarded ==
    LET starts == {i \in 0..(Len(input) - 1) :
                      /\ input[i + 1] \in DigitSet
                      /\ i > 0 => input[i] \notin DigitSet}
        Number(i) == ParseInt(Slice(input, i, i + RunLen(input, i, DigitSet)))
    IN  pc = "age read" =>
            ((\A i \in starts : Number(i) \notin 1..100) => output = NoneInt)

(***************************************************************************)
(* Properties of the report generator's scrape pipeline                    *)
(***************************************************************************)
\* C22: a date that cannot be parsed drops a record only when the date was
\* its sole validity evidence: a block whose date is missing or unparseable
\* but which has a substantial description (more than 20 characters, the
\* pipeline's test for meaningful content) still yields a record, one with the
\* name of that description, and the run is not aborted.
C22_UndatedBlockYieldsRecord ==
    (pc = "scraped" /\ input.error = "") =>
        /\ output.status = "Found"
        /\ \A block \in {ReportBlocks(input.content)[k] : k \in 1..Len(ReportBlocks(input.content))} :
              Len(block.description) > 20
                  => \E k \in 1..Len(boston_cases) :
                        boston_cases[k].victim_name = extract_name(block.description)

(***************************************************************************)
(* Properties of the list of the secondary source                          *)
(***************************************************************************)
\* C23: the secondary-source list is canonical like the primary one: after any
\* sequence of scrape_cold_case_db calls, cold_case_db holds no two records
\* with the same (victim_name, location, date) and no record that fails the
\* validity predicate, so the matcher never receives a duplicated or invalid
\* secondary record.
C23_ColdCaseDbIsCanonical ==
    /\ \A i, j \in 1..Len(cold_case_db) :
          (/\ cold_case_db[i].victim_name = cold_case_db[j].victim_name
           /\ cold_case_db[i].location = cold_case_db[j].location
           /\ cold_case_db[i].date = cold_case_db[j].date) => i = j
    /\ \A k \in 1..Len(cold_case_db) : ValidRecord(cold_case_db[k])

(***************************************************************************)
(* Properties of the reasons of a pair                                     *)
(***************************************************************************)
\* C24: the reasons of a pair are explainable from its score: every reason
\* string returned by _get_enhanced_match_reasons belongs to a scoring rule
\* that added a nonzero amount in _calculate_enhanced_match_score for the same
\* pair, the reasons come in the order of the scoring rules (name, age, date,
\* location), and no reason is emitted for a dimension that contributed 0.
\* The area confirmation is counted as a reason of the location rule.
C24_ReasonsExplainedByScore ==
    LET reasons == output.match_reasons
        Is(k, prefixes) == \E p \in prefixes : StartsAt(reasons[k], p, 0)
        Rule(k) == IF Is(k, NameReasonPrefixes) THEN 1
                   ELSE IF Is(k, AgeReasonPrefixes) THEN 2
                   ELSE IF Is(k, YearReasonPrefixes) THEN 3
                   ELSE IF Is(k, LocationReasonPrefixes \cup AreaReasonPrefixes) THEN 4
                   ELSE 0
        Added(rule) ==
            CASE rule = 1 -> NameRule(Lower(input[1].victim_name), Lower(input[2].victim_name))
              [] rule = 2 -> AgeRule(input[1].age, input[2].age)
              [] rule = 3 -> YearRule(_extract_year(input[1].date), _extract_year(input[2].date))
              [] rule = 4 -> LocationRule(Lower(input[1].location), Lower(input[2].location))
              [] OTHER -> 0
    IN  pc = "scored" =>
            /\ \A k \in 1..Len(reasons) : Added(Rule(k)) # 0
            /\ \A k \in 1..(Len(reasons) - 1) : Rule(k) <= Rule(k + 1)

\* C25: in the scrape pipeline of the report generator, when several extracted
\* cases share the same deduplication key (victim_name and date), the record
\* kept in boston_cases is the first occurrence in source order, and exactly
\* one record per key remains.
C25_FirstOccurrenceWins ==
    LET cases == ExtractedCases(ReportBlocks(input.content))
        Same(a, b) == a.victim_name = b.victim_name /\ a.date = b.date
        First(case) == cases[CHOOSE i \in 1..Len(cases) :
                                /\ Same(cases[i], case)
                                /\ \A j \in 1..(i - 1) : ~Same(cases[j], case)]
    IN  (pc = "scraped" /\ input.error = "") =>
            /\ \A i \in 1..Len(cases) : \E k \in 1..Len(boston_cases) : Same(boston_cases[k], cases[i])
            /\ \A k, l \in 1..Len(boston_cases) : Same(boston_cases[k], boston_cases[l]) => k = l
            /\ \A k \in 1..Len(boston_cases) :
                  /\ \E i \in 1..Len(cases) : Same(cases[i], boston_cases[k])
                  /\ boston_cases[k] = First(boston_cases[k])

(***************************************************************************)
(* Properties of the list of the primary source over several scrapes       *)
(***************************************************************************)
\* C26: after any sequence of scrape_boston_cases calls on one checker (the
\* list is appended to, never reset, then deduplicated), boston_cases never
\* holds two records with the same (victim_name, location, date), and
\* scraping a page again leaves boston_cases as it was: a scrape of page p
\* changes nothing when the call before it was a scrape of page p, or when
\* every record of page p has its signature in the list already.
C26_NoDuplicatesAndRescrapeChangesNothing ==
    [][LET Same(a, b) == a.victim_name = b.victim_name /\ a.location = b.location /\ a.date = b.date
           Seen(p) == \A i \in 1..Len(BostonPageCases[p]) :
                         \E k \in 1..Len(boston_cases) : Same(boston_cases[k], BostonPageCases[p][i])
           Again(p) == last_call.op = "scrape_boston_cases" /\ last_call.page = p
       IN  /\ \A k, l \in 1..Len(boston_cases') : Same(boston_cases'[k], boston_cases'[l]) => k = l
           /\ \A p \in 1..Len(BostonPages) :
                 (/\ calls' = calls + 1
                  /\ last_call'.op = "scrape_boston_cases" /\ last_call'.page = p
                  /\ Again(p) \/ Seen(p))
                     => boston_cases' = boston_cases]_vars

\* page 1 was scraped twice (a call that leaves all lists empty may take the
\* place of the first scrape): the list has the two records of the page once
C26_Witness ==
    /\ calls = 2
    /\ last_call.op = "scrape_boston_cases" /\ last_call.page = 1
    /\ Len(BostonPageCases[1]) = 2
    /\ boston_cases = BostonPageCases[1]
    /\ cold_case_db = <<>>

\* C27: after any sequence of scrape_boston_cases calls on one checker, no two
\* records of boston_cases carry the same case_id, and the case_id values
\* are strictly increasing along the list.
C27_CaseIdsIncrease ==
    \A k, l \in 1..Len(boston_cases) :
        k < l => boston_cases[k].case_id < boston_cases[l].case_id

\* C28: every record of boston_cases produced by the segmenter and the
\* assembler has a date, and the year _extract_year reads in it is 2014 (each
\* block starts with the date match that delimited it), so that the year
\* filter of find_enhanced_boston_matches never skips a record of boston_cases.
C28_EveryBostonCaseIsOf2014 ==
    \A k \in 1..Len(boston_cases) :
        /\ boston_cases[k].date # None
        /\ _extract_year(boston_cases[k].date) = 2014

\* the two cases of page 1 were matched against the two records of a page of
\* the secondary source, and both passed the year filter
C28_Witness ==
    /\ last_call.op = "find_enhanced_boston_matches"
    /\ Len(boston_cases) = 2 /\ Len(cold_case_db) = 2
    /\ boston_cases[2].date = <<"M","a","r","c","h"," ","1","2",","," ","2","0","1","4">>
    /\ \E m \in 1..Len(matches) : matches[m].boston_case = boston_cases[1]
    /\ \E m \in 1..Len(matches) : matches[m].boston_case = boston_cases[2]

\* C29: find_enhanced_boston_matches leaves boston_cases and cold_case_db
\* unchanged and rebuilds matches on each call: every candidate pairs a
\* record of boston_cases with a record of cold_case_db, there are at most
\* as many candidates as pairs, and a call that follows another call of
\* find_enhanced_boston_matches with no scrape in between leaves the same
\* list, never a longer one.
C29_FindRebuildsMatches ==
    [][(calls' = calls + 1 /\ last_call'.op = "find_enhanced_boston_matches")
         => /\ boston_cases' = boston_cases
            /\ cold_case_db' = cold_case_db
            /\ Len(matches') <= Len(boston_cases) * Len(cold_case_db)
            /\ \A m \in 1..Len(matches') :
                  /\ \E k \in 1..Len(boston_cases) : matches'[m].boston_case = boston_cases[k]
                  /\ \E k \in 1..Len(cold_case_db) : matches'[m].cold_case = cold_case_db[k]
            /\ last_call.op = "find_enhanced_boston_matches" => matches' = matches]_vars

\* the matcher ran twice in a row on two non-empty lists and left candidates
C29_Witness ==
    /\ calls = 4
    /\ last_call.op = "find_enhanced_boston_matches"
    /\ Len(boston_cases) = 2 /\ Len(cold_case_db) = 2
    /\ matches # <<>>
    /\ Len(matches) = last_call.n

====
